---- MODULE Spec2Model ----
(***************************************************************************)
(* The secret store of the Switchboard main process (src/main/index.ts):   *)
(* secureGetValue / secureSetValue / secureDeleteValue / clearSecureValues *)
(* over the OS keychain (keytar), the encrypted fallback map (safeStorage  *)
(* + electron-store) and the Secure Key Index kept in the local store.     *)
(*                                                                         *)
(* Strings are modelled as follows.  A storage key is a sequence of        *)
(* tokens; the token NSTok stands for the text "switchboard.secure." and   *)
(* every other token for one character.  Both persisted maps are flat      *)
(* key -> string maps, as the store's data model describes them.           *)
(***************************************************************************)
EXTENDS Integers, Sequences, FiniteSets, TLC

VARIABLES
    keytarClient,          \* "none" | "full" (has findCredentials) | "nofind"
    keytarLoadError,       \* TRUE once the keytar import failed (memoized error)
    keytarFallbackWarned,  \* warn-once flag
    warnings,              \* log: primary-unavailable warnings this process has written
    vault,                 \* OS keychain, service "Switchboard": account -> password
    fallback,              \* secureFallbackStore: key -> base64 ciphertext
    secureKeyIndex,        \* raw value under SECURE_KEY_INDEX in the local store
    probeAttempts,         \* history: keytar import attempts of this instance
    failureSeen,           \* history: primary failures operations of this instance hit
    liveSets,              \* history: keys set successfully and not removed/cleared since
    last,                  \* history: what the most recent operation did
    ops,                   \* number of steps taken so far
    isFallbackPageActive,  \* the fallback page has been requested (index.ts 56)
    currentTrayStatus,     \* "connected" | "degraded" | "disconnected" (index.ts 55)
    navigation,            \* main window: the page displayed and the page being loaded
    permissionCache,       \* notifications: cached permission, NULL when not known
    permissionCheckInFlight, \* number of the permission check in flight, 0 when none
    permissionChecks,      \* the permission checks started so far, pending or done
    toastHandler,          \* the registered toast handler, NULL when none
    unregisters,           \* handlers whose unregister function has been returned
    notifyLast,            \* history: what the most recent notification step did
    appReady,              \* app.isReady()
    whenReadyRan,          \* the app.whenReady() callback has run
    pendingDeepLinks,      \* deep links queued before readiness (index.ts 57)
    linkLog,               \* history: links arrived, queued and handled, by number
    calls,                 \* store calls running step by step, each with its position
    backendWrites,         \* history: the writes of those calls, in the order they landed
    localEntries,          \* local store file: entry name -> stored value (index apart)
    localLast              \* history: what the most recent non-secret operation did

storeVars == <<keytarClient, keytarLoadError, keytarFallbackWarned, warnings, vault,
               fallback, secureKeyIndex, probeAttempts, failureSeen, liveSets>>

windowVars == <<isFallbackPageActive, currentTrayStatus, navigation>>

\* State of the main process outside the secret store.
notifyVars == <<permissionCache, permissionCheckInFlight, permissionChecks,
                toastHandler, unregisters, notifyLast>>

linkVars == <<appReady, whenReadyRan, pendingDeepLinks, linkLog>>

raceVars == <<calls, backendWrites>>

localVars == <<localEntries, localLast>>

shellVars == <<windowVars, notifyVars, linkVars, raceVars, localVars>>

nonWindowVars == <<storeVars, last, ops, notifyVars, linkVars, raceVars, localVars>>

vars == <<storeVars, last, ops, shellVars>>

-----------------------------------------------------------------------------
(* Bounds and value domains *)

MaxOps == 3

NULL == "null"
Values == {"v1", "v2"}

NSTok == "switchboard.secure."
MaxKeyLen == 256

\* The token Run255 stands for a run of 255 letters x.
Run255 == "x{255}"

\* Length in characters of one token.
TokLen(t) == IF t = NSTok THEN 19 ELSE IF t = Run255 THEN 255 ELSE 1

LowerCase == <<"a", "b", "c", "d", "e", "f", "g", "h", "i", "j", "k", "l", "m",
               "n", "o", "p", "q", "r", "s", "t", "u", "v", "w", "x", "y", "z">>

\* UTF-16 code unit of the first character of a token (what Array.sort compares);
\* a token the model gives no code of its own stands for the character "/".
TokCode(t) == CASE t = "a" -> 97 [] t = "b" -> 98 [] t = NSTok -> 115
                [] t = Run255 -> 120 [] t = "_" -> 95 [] t = "." -> 46
                [] t = "-" -> 45 [] t = "1" -> 49
                [] \E i \in 1..Len(LowerCase) : LowerCase[i] = t ->
                      96 + (CHOOSE i \in 1..Len(LowerCase) : LowerCase[i] = t)
                [] OTHER -> 47

\* Tokens all of whose characters are in [a-zA-Z0-9_.-].
ValidToks == {LowerCase[i] : i \in 1..Len(LowerCase)}
             \cup {"1", "_", ".", "-", NSTok, Run255}

RECURSIVE KeyLen(_)
KeyLen(key) == IF key = <<>> THEN 0 ELSE TokLen(Head(key)) + KeyLen(Tail(key))

isValidStorageKey(key) ==
    /\ KeyLen(key) > 0
    /\ KeyLen(key) <= MaxKeyLen
    /\ \A i \in 1..Len(key) : key[i] \in ValidToks

getSecureStorageKey(key) == <<NSTok>> \o key

getSecureKeychainAccount(key) == getSecureStorageKey(key)

\* The keys the operations are called with: two plain keys and one valid key that
\* itself starts with the namespace prefix.
Keys == {<<"a">>, <<"b">>, <<NSTok, "a">>}

Accounts == Keys \cup {getSecureStorageKey(k) : k \in Keys}

-----------------------------------------------------------------------------
(* safeStorage and base64 *)

\* safeStorage.encryptString(v): the ciphertext bytes of v.
encryptString(v) == "sealed:" \o v

\* Buffer.toString('base64').
toBase64(bytes) == "b64:" \o bytes

Ciphertexts == {toBase64(encryptString(v)) : v \in Values}

\* A stored string that is not the base64 of any ciphertext of this session.
Garbage == "b64:garbage"

\* Mutant: the stored text is decoded with another encoding than it was written
\* with, so the bytes handed to safeStorage are never a ciphertext.
decryptString_OtherEncoding(stored) == "throw"

\* Buffer.from(s, 'base64') followed by safeStorage.decryptString: the plaintext,
\* or "throw" when the bytes are not a ciphertext of this session.
decryptString(stored) ==
    IF \E v \in Values : toBase64(encryptString(v)) = stored
    THEN CHOOSE v \in Values : toBase64(encryptString(v)) = stored
    ELSE "throw"

\* Mutant: the stored text is returned without decrypting it.
decryptFallbackSecureValue_Undecoded(encryptedValue) == encryptedValue

\* Mutant: the decryption error is not caught.
decryptFallbackSecureValue_Propagate(encryptedValue) == decryptString(encryptedValue)

decryptFallbackSecureValue(encryptedValue) ==
    IF decryptString(encryptedValue) = "throw" THEN NULL
    ELSE decryptString(encryptedValue)

-----------------------------------------------------------------------------
(* Key namespace resolver *)

\* Mutant: the legacy value is preferred.
resolveStoredValue_LegacyFirst(namespacedValue, legacyValue) ==
    IF legacyValue # NULL
    THEN [value |-> legacyValue, shouldMigrateLegacyValue |-> TRUE]
    ELSE [value |-> namespacedValue, shouldMigrateLegacyValue |-> FALSE]

resolveStoredValue(namespacedValue, legacyValue) ==
    IF namespacedValue # NULL
    THEN [value |-> namespacedValue, shouldMigrateLegacyValue |-> FALSE]
    ELSE IF legacyValue # NULL
    THEN [value |-> legacyValue, shouldMigrateLegacyValue |-> TRUE]
    ELSE [value |-> NULL, shouldMigrateLegacyValue |-> FALSE]

-----------------------------------------------------------------------------
(* Secure Key Index *)

\* Lexicographic order on code units, a proper prefix first.
RECURSIVE KeyLess(_, _)
KeyLess(x, y) ==
    IF x = <<>> THEN y # <<>>
    ELSE IF y = <<>> THEN FALSE
    ELSE IF TokCode(Head(x)) # TokCode(Head(y)) THEN TokCode(Head(x)) < TokCode(Head(y))
    ELSE KeyLess(Tail(x), Tail(y))

RECURSIVE SortKeys(_)
SortKeys(S) ==
    IF S = {} THEN <<>>
    ELSE LET m == CHOOSE x \in S : \A y \in S \ {x} : KeyLess(x, y)
         IN <<m>> \o SortKeys(S \ {m})

IndexAbsent == [kind |-> "absent", entries |-> <<>>]

\* readSecureKeyIndex: the keys read, and the raw value left in the local store.
readSecureKeyIndex(raw) ==
    CASE raw.kind = "array" ->
            [keys |-> {raw.entries[i] : i \in {j \in 1..Len(raw.entries) :
                                                 isValidStorageKey(raw.entries[j])}},
             raw  |-> raw]
      [] raw.kind = "notjson" -> [keys |-> {}, raw |-> IndexAbsent]
      [] OTHER -> [keys |-> {}, raw |-> raw]

writeSecureKeyIndex(keys) ==
    IF keys = {} THEN IndexAbsent
    ELSE [kind |-> "array", entries |-> SortKeys(keys)]

\* Mutant: the index is written from the new key alone.
trackSecureKey_Overwrite(raw, key) == writeSecureKeyIndex({key})

trackSecureKey(raw, key) == writeSecureKeyIndex(readSecureKeyIndex(raw).keys \cup {key})

untrackSecureKey(raw, key) == writeSecureKeyIndex(readSecureKeyIndex(raw).keys \ {key})

getTrackedSecureKeys(raw) == readSecureKeyIndex(raw).keys

-----------------------------------------------------------------------------
(* The store's state as one record, so that an operation is a function of it *)

St == [vault |-> vault, fallback |-> fallback, index |-> secureKeyIndex,
       client |-> keytarClient, loadError |-> keytarLoadError,
       warned |-> keytarFallbackWarned, warnings |-> warnings,
       probes |-> probeAttempts]

\* What an operation reports (history only).
NoRet == [op |-> "none", key |-> <<>>, value |-> NULL, outcome |-> "ok",
          result |-> NULL, served |-> "none", pfail |-> "none", pcalls |-> 0,
          error |-> "none", migrated |-> FALSE, enc |-> "unchecked",
          fbRead |-> FALSE, nsBefore |-> NULL, legacyBefore |-> NULL,
          tracked |-> {}, setsBefore |-> {}, again |-> FALSE,
          rawBefore |-> IndexAbsent, trusted |-> TRUE,
          sender |-> [url |-> "none", main |-> FALSE],
          verdicts |-> [shared |-> FALSE, main |-> "none", preload |-> "none"],
          request |-> [key |-> [type |-> "none", text |-> <<>>],
                       value |-> [type |-> "none", text |-> NULL]]]

\* Mutant: a failed import is not memoized, so every call imports again.
getKeytar_Retry(s, probe) ==
    IF s.client # "none" THEN [s |-> s, ok |-> TRUE, how |-> "cached"]
    ELSE IF probe = "fail"
    THEN [s |-> [s EXCEPT !.loadError = TRUE, !.probes = @ + 1],
          ok |-> FALSE, how |-> "probe"]
    ELSE [s |-> [s EXCEPT !.client = probe, !.probes = @ + 1, !.loadError = FALSE],
          ok |-> TRUE, how |-> "probe"]

\* getKeytar: the cached handle, the memoized load error, or one import attempt.
getKeytar(s, probe) ==
    IF s.client # "none" THEN [s |-> s, ok |-> TRUE, how |-> "cached"]
    ELSE IF s.loadError THEN [s |-> s, ok |-> FALSE, how |-> "memo"]
    ELSE IF probe = "fail"
    THEN [s |-> [s EXCEPT !.loadError = TRUE, !.probes = @ + 1],
          ok |-> FALSE, how |-> "probe"]
    ELSE [s |-> [s EXCEPT !.client = probe, !.probes = @ + 1],
          ok |-> TRUE, how |-> "probe"]

\* Mutant: the flag does not guard the log call.
warnKeytarFallback_Always(s) == [s EXCEPT !.warned = TRUE, !.warnings = @ + 1]

\* warnKeytarFallback: logs the warning unless the flag says it has been logged.
warnKeytarFallback(s) ==
    IF s.warned THEN s ELSE [s EXCEPT !.warned = TRUE, !.warnings = @ + 1]

\* Mutant: the capability is assumed.
canUseSafeStorageFallback_Assumed(encAvail) == TRUE

\* Mutant: the capability was found absent once and is never looked at again.
canUseSafeStorageFallback_Never(encAvail) == FALSE

canUseSafeStorageFallback(encAvail) == encAvail

\* The error of `throw keytarLoadError ?? new Error('No secure storage backend ...')`.
NoBackendError(s) == IF s.loadError THEN "keytarLoadError" ELSE "noBackend"

-----------------------------------------------------------------------------
(* The four operations.  inp.probe is the outcome of the keytar import if it  *)
(* is attempted ("full", "nofind" or "fail"); inp.failAt is the number of the *)
(* keytar call of this operation that rejects (0: none does); inp.encAvail is *)
(* safeStorage.isEncryptionAvailable() at the moment of the call.             *)

\* Mutant: the migration leaves the bare entry in place.
migrateLegacyEntry_KeepLegacy(store, namespacedKey, key, value) ==
    [store EXCEPT ![namespacedKey] = value]

\* The migration writes of secureGetValue: set the namespaced entry, delete the
\* bare one (keytar: index.ts 565-566, fallback store: 591-592).
migrateLegacyEntry(store, namespacedKey, key, value) ==
    [store EXCEPT ![namespacedKey] = value, ![key] = NULL]

\* The fallback half of secureGetValue (index.ts 579-602), entered from the catch.
secureGetFallback(s0, key, inp, ret0) ==
    LET s == warnKeytarFallback(s0)
        fallbackKey == getSecureStorageKey(key)
        ret == [ret0 EXCEPT !.enc = IF inp.encAvail THEN "yes" ELSE "no"]
    IN
    IF ~canUseSafeStorageFallback(inp.encAvail)
    THEN [s |-> s,
          ret |-> [ret EXCEPT !.outcome = "throw", !.error = NoBackendError(s)]]
    ELSE
      LET namespacedEncryptedValue == s.fallback[fallbackKey]
          legacyEncryptedValue == s.fallback[key]
          resolvedEncrypted ==
              resolveStoredValue(namespacedEncryptedValue, legacyEncryptedValue)
          decrypted == IF resolvedEncrypted.value # NULL
                       THEN decryptFallbackSecureValue(resolvedEncrypted.value)
                       ELSE NULL
          migrate == /\ resolvedEncrypted.value # NULL
                     /\ resolvedEncrypted.shouldMigrateLegacyValue
                     /\ decrypted # NULL
          rf == [ret EXCEPT !.served = "fallback", !.fbRead = TRUE,
                            !.nsBefore = namespacedEncryptedValue,
                            !.legacyBefore = legacyEncryptedValue,
                            !.result = decrypted, !.migrated = migrate]
      IN IF migrate
         THEN [s |-> [s EXCEPT
                        !.fallback = migrateLegacyEntry(@, fallbackKey, key,
                                                        resolvedEncrypted.value),
                        !.index = trackSecureKey(@, key)],
               ret |-> rf]
         ELSE [s |-> s, ret |-> rf]

\* secureGetValue (index.ts 554-603).  Keytar calls, in order: 1 getPassword of the
\* namespaced account, 2 getPassword of the bare account, and when migrating
\* 3 setPassword of the namespaced account, 4 deletePassword of the bare account.
secureGetValue(s0, key, inp) ==
    LET accountKey == getSecureKeychainAccount(key)
        kt == getKeytar(s0, inp.probe)
        s == kt.s
        namespacedValue == s.vault[accountKey]
        legacyValue == s.vault[key]
        resolved == resolveStoredValue(namespacedValue, legacyValue)
        migrate == resolved.shouldMigrateLegacyValue /\ resolved.value # NULL
        ncalls == IF migrate THEN 4 ELSE 2
        failIdx == IF inp.failAt \in 1..ncalls THEN inp.failAt ELSE 0
        ret == [NoRet EXCEPT !.op = "get", !.key = key]
    IN
    IF ~kt.ok
    THEN secureGetFallback(s, key, inp, [ret EXCEPT !.pfail = kt.how])
    ELSE IF failIdx = 0
    THEN [s |-> IF migrate
                THEN [s EXCEPT !.vault = migrateLegacyEntry(@, accountKey, key,
                                                            resolved.value),
                               !.index = trackSecureKey(@, key)]
                ELSE s,
          ret |-> [ret EXCEPT !.served = "primary", !.pcalls = ncalls,
                              !.nsBefore = namespacedValue,
                              !.legacyBefore = legacyValue,
                              !.result = resolved.value, !.migrated = migrate]]
    ELSE secureGetFallback(
            IF failIdx = 4
            THEN [s EXCEPT !.vault = [@ EXCEPT ![accountKey] = resolved.value]]
            ELSE s,
            key, inp,
            [ret EXCEPT !.pcalls = failIdx,
                        !.pfail = CASE failIdx = 1 -> "getNamespaced"
                                    [] failIdx = 2 -> "getLegacy"
                                    [] failIdx = 3 -> "migrateSet"
                                    [] OTHER -> "migrateDelete"])

\* Mutant: the key is tracked before the capability is checked.
secureSetValue_TrackFirst(s0, key, value, inp) ==
    LET accountKey == getSecureKeychainAccount(key)
        fallbackKey == getSecureStorageKey(key)
        kt == getKeytar(s0, inp.probe)
        s == [kt.s EXCEPT !.index = trackSecureKey(@, key)]
        ret == [NoRet EXCEPT !.op = "set", !.key = key, !.value = value]
    IN
    IF kt.ok /\ inp.failAt # 1
    THEN [s |-> [s EXCEPT !.vault = [@ EXCEPT ![accountKey] = value]],
          ret |-> [ret EXCEPT !.served = "primary", !.pcalls = 1]]
    ELSE
      LET w == warnKeytarFallback(s)
          rc == [ret EXCEPT !.pfail = IF kt.ok THEN "setPassword" ELSE kt.how,
                            !.pcalls = IF kt.ok THEN 1 ELSE 0,
                            !.enc = IF inp.encAvail THEN "yes" ELSE "no"]
      IN IF ~canUseSafeStorageFallback(inp.encAvail)
         THEN [s |-> w,
               ret |-> [rc EXCEPT !.outcome = "throw", !.error = NoBackendError(w)]]
         ELSE [s |-> [w EXCEPT
                        !.fallback = [@ EXCEPT ![fallbackKey] =
                                                  toBase64(encryptString(value))]],
               ret |-> [rc EXCEPT !.served = "fallback"]]

\* secureSetValue (index.ts 519-539).  Keytar call 1: setPassword.
\* Mutant: the fallback map receives the value as it was passed in.
secureSetValue_Plaintext(s0, key, value, inp) ==
    LET kt == getKeytar(s0, inp.probe)
        ret == [NoRet EXCEPT !.op = "set", !.key = key, !.value = value]
    IN
    IF kt.ok /\ inp.failAt # 1
    THEN [s |-> [kt.s EXCEPT !.vault = [@ EXCEPT ![getSecureKeychainAccount(key)] = value],
                             !.index = trackSecureKey(@, key)],
          ret |-> [ret EXCEPT !.served = "primary", !.pcalls = 1]]
    ELSE
      LET w == warnKeytarFallback(kt.s)
          rc == [ret EXCEPT !.pfail = IF kt.ok THEN "setPassword" ELSE kt.how,
                            !.pcalls = IF kt.ok THEN 1 ELSE 0,
                            !.enc = IF inp.encAvail THEN "yes" ELSE "no"]
      IN IF ~inp.encAvail
         THEN [s |-> w,
               ret |-> [rc EXCEPT !.outcome = "throw", !.error = NoBackendError(w)]]
         ELSE [s |-> [w EXCEPT !.fallback = [@ EXCEPT ![getSecureStorageKey(key)] = value],
                               !.index = trackSecureKey(@, key)],
               ret |-> [rc EXCEPT !.served = "fallback"]]

secureSetValue(s0, key, value, inp) ==
    LET accountKey == getSecureKeychainAccount(key)
        fallbackKey == getSecureStorageKey(key)
        kt == getKeytar(s0, inp.probe)
        s == kt.s
        ret == [NoRet EXCEPT !.op = "set", !.key = key, !.value = value]
        primaryOk == kt.ok /\ inp.failAt # 1
    IN
    IF primaryOk
    THEN [s |-> [s EXCEPT !.vault = [@ EXCEPT ![accountKey] = value],
                          !.index = trackSecureKey(@, key)],
          ret |-> [ret EXCEPT !.served = "primary", !.pcalls = 1]]
    ELSE
      LET w == warnKeytarFallback(s)
          rc == [ret EXCEPT !.pfail = IF kt.ok THEN "setPassword" ELSE kt.how,
                            !.pcalls = IF kt.ok THEN 1 ELSE 0,
                            !.enc = IF inp.encAvail THEN "yes" ELSE "no"]
      IN IF ~canUseSafeStorageFallback(inp.encAvail)
         THEN [s |-> w,
               ret |-> [rc EXCEPT !.outcome = "throw", !.error = NoBackendError(w)]]
         ELSE [s |-> [w EXCEPT
                        !.fallback = [@ EXCEPT ![fallbackKey] =
                                                  toBase64(encryptString(value))],
                        !.index = trackSecureKey(@, key)],
               ret |-> [rc EXCEPT !.served = "fallback"]]

\* Mutant: the keytar calls are not wrapped in try/catch, so their error escapes
\* before the fallback entries are deleted and the key is untracked.
secureDeleteValue_NoCatch(s0, key, inp) ==
    LET accountKey == getSecureKeychainAccount(key)
        fallbackKey == getSecureStorageKey(key)
        kt == getKeytar(s0, inp.probe)
        s == kt.s
        failIdx == IF kt.ok /\ inp.failAt \in 1..2 THEN inp.failAt ELSE 0
        v1 == IF kt.ok /\ failIdx # 1 THEN [s.vault EXCEPT ![accountKey] = NULL]
              ELSE s.vault
        v2 == IF kt.ok /\ failIdx = 0 THEN [v1 EXCEPT ![key] = NULL] ELSE v1
        ret == [NoRet EXCEPT !.op = "remove", !.key = key,
                  !.pcalls = IF ~kt.ok THEN 0 ELSE IF failIdx = 1 THEN 1 ELSE 2,
                  !.pfail = IF ~kt.ok THEN kt.how
                            ELSE CASE failIdx = 1 -> "deleteNamespaced"
                                   [] failIdx = 2 -> "deleteLegacy"
                                   [] OTHER -> "none"]
    IN
    IF kt.ok /\ failIdx = 0
    THEN [s |-> [s EXCEPT !.vault = v2,
                          !.fallback = [@ EXCEPT ![fallbackKey] = NULL, ![key] = NULL],
                          !.index = untrackSecureKey(@, key)],
          ret |-> [ret EXCEPT !.served = "primary"]]
    ELSE [s |-> [s EXCEPT !.vault = v2],
          ret |-> [ret EXCEPT !.outcome = "throw", !.error = "keytar"]]

\* secureDeleteValue (index.ts 605-621).  Keytar calls: 1 deletePassword of the
\* namespaced account, 2 deletePassword of the bare account.
secureDeleteValue(s0, key, inp) ==
    LET accountKey == getSecureKeychainAccount(key)
        fallbackKey == getSecureStorageKey(key)
        kt == getKeytar(s0, inp.probe)
        s == kt.s
        failIdx == IF kt.ok /\ inp.failAt \in 1..2 THEN inp.failAt ELSE 0
        v1 == IF kt.ok /\ failIdx # 1 THEN [s.vault EXCEPT ![accountKey] = NULL]
              ELSE s.vault
        v2 == IF kt.ok /\ failIdx = 0 THEN [v1 EXCEPT ![key] = NULL] ELSE v1
        w == IF kt.ok /\ failIdx = 0 THEN s ELSE warnKeytarFallback(s)
    IN
    [s |-> [w EXCEPT !.vault = v2,
                     !.fallback = [@ EXCEPT ![fallbackKey] = NULL, ![key] = NULL],
                     !.index = untrackSecureKey(@, key)],
     ret |-> [NoRet EXCEPT !.op = "remove", !.key = key,
                !.served = IF kt.ok /\ failIdx = 0 THEN "primary" ELSE "fallback",
                !.pcalls = IF ~kt.ok THEN 0 ELSE IF failIdx = 1 THEN 1 ELSE 2,
                !.pfail = IF ~kt.ok THEN kt.how
                          ELSE CASE failIdx = 1 -> "deleteNamespaced"
                                 [] failIdx = 2 -> "deleteLegacy"
                                 [] OTHER -> "none"]]

\* Mutant: without findCredentials only the namespaced accounts are deleted.
ClearAttempted_NamespacedOnly(s, tracked, failAccts) ==
    IF s.client = "full" THEN {a \in Accounts : s.vault[a] # NULL}
    ELSE {getSecureKeychainAccount(k) : k \in tracked}

\* The accounts clearSecureValues asks keytar to delete, and those it deletes:
\* deletePassword rejects for the accounts in failAccts.  Without findCredentials a
\* rejected deletion of a key's namespaced account skips its bare account.
ClearAttempted(s, tracked, failAccts) ==
    IF s.client = "full" THEN {a \in Accounts : s.vault[a] # NULL}
    ELSE {getSecureKeychainAccount(k) : k \in tracked}
         \cup {k \in tracked : getSecureKeychainAccount(k) \notin failAccts}

\* Mutant: only the namespaced keys are wiped, as clearLocalValues does.
fallbackKeysToDelete_Namespaced(store) ==
    {a \in Accounts : store[a] # NULL /\ Head(a) = NSTok}

\* Object.keys(fallbackStore.store): every key of the fallback map.
fallbackKeysToDelete(store) == {a \in Accounts : store[a] # NULL}

\* clearSecureValues (index.ts 623-672).
clearSecureValues(s0, inp) ==
    LET trackedKeys == getTrackedSecureKeys(s0.index)
        kt == getKeytar(s0, inp.probe)
        s == kt.s
        findFails == kt.ok /\ s.client = "full" /\ inp.failFind
        attempted == IF kt.ok /\ ~findFails
                     THEN ClearAttempted(s, trackedKeys, inp.failAccts) ELSE {}
        deleted == attempted \ inp.failAccts
        w == IF kt.ok /\ ~findFails THEN s ELSE warnKeytarFallback(s)
    IN
    [s |-> [w EXCEPT !.vault = [a \in Accounts |-> IF a \in deleted THEN NULL ELSE @[a]],
                     !.fallback = [a \in Accounts |->
                                     IF a \in fallbackKeysToDelete(@) THEN NULL ELSE @[a]],
                     !.index = writeSecureKeyIndex({})],
     ret |-> [NoRet EXCEPT !.op = "clear", !.tracked = trackedKeys,
                !.served = IF kt.ok /\ ~findFails THEN "primary" ELSE "fallback",
                !.pcalls = IF ~kt.ok THEN 0
                           ELSE IF s.client = "full"
                           THEN (IF findFails THEN 1 ELSE 1 + Cardinality(attempted))
                           ELSE Cardinality(attempted),
                !.pfail = IF ~kt.ok THEN kt.how
                          ELSE IF findFails THEN "findCredentials"
                          ELSE IF attempted \cap inp.failAccts # {} THEN "deletePassword"
                          ELSE "none"]]

-----------------------------------------------------------------------------
(* State machine.  An action binds the outcome of its operation once, as the  *)
(* single element r of a set, and commits it.                                 *)

Probes == {"full", "nofind", "fail"}

\* Bare keys that data written before namespacing existed may be stored under.
LegacyKeys == {<<"a">>}

\* Inputs an operation never consults are held at one value, so that each behaviour
\* of the code is one step: the import outcome when the handle or the load error
\* is already memoized, the failing keytar call when keytar is not reached or has
\* fewer calls, the encryption capability when the primary path completes.
Unprobed == keytarClient = "none" /\ ~keytarLoadError

ReachesKeytar(probe) == keytarClient # "none" \/ (Unprobed /\ probe # "fail")

CanonProbe(probe) == Unprobed \/ probe = "full"

CanonInputs(probe, failAt, ncalls, encAvail) ==
    /\ CanonProbe(probe)
    /\ failAt \in 0..(IF ReachesKeytar(probe) THEN ncalls ELSE 0)
    /\ (ReachesKeytar(probe) /\ failAt = 0) => encAvail

\* Keytar calls secureGetValue makes for key when none rejects.
GetCalls(key) ==
    IF vault[getSecureKeychainAccount(key)] = NULL /\ vault[key] # NULL THEN 4 ELSE 2

\* A remove repeats the operation directly before it: a remove of the same key.
Again(ret) == last.op = ret.op /\ last.key = ret.key

\* The report of a notification step: the operation, whether the desktop bridge was
\* there, whether requestPermission was invoked, the answer known at once (NULL
\* when the caller waits for a check), the check the caller waits for, the handler
\* concerned; and, kept across steps, the number of resets so far and whether
\* canUseDesktop was called with a bridge since the last one.
NoNotify ==
    [op |-> "none", bridge |-> FALSE, requested |-> FALSE, result |-> NULL,
     waitsFor |-> 0, handler |-> NULL, epoch |-> 0, called |-> FALSE]

\* The main process after createWindow (index.ts 116-247): the remote app is being
\* loaded, no page is displayed yet.
\* The local store file holds the renderer's non-secret entries and, under the
\* reserved key, the secure key index.  A stored value is a record: absent, a text
\* the renderer stored, or what the index variable holds.
LocalNSTok == "switchboard.local."

\* '__switchboard_secure_keys__', one token per character.
SECURE_KEY_INDEX ==
    <<"_", "_", "s", "w", "i", "t", "c", "h", "b", "o", "a", "r", "d", "_",
      "s", "e", "c", "u", "r", "e", "_", "k", "e", "y", "s", "_", "_">>

getLocalStorageKey(key) == <<LocalNSTok>> \o key

LocalKeys == {<<"a">>, SECURE_KEY_INDEX}

LocalAccounts == {<<"a">>} \cup {getLocalStorageKey(k) : k \in LocalKeys}

LocalText(v) == [kind |-> "text", entries |-> << <<v>> >>]

\* typeof x === 'string': everything the file holds except an absent entry.
IsStoredString(x) == x.kind # "absent"

NoLocal == [op |-> "none", key |-> <<>>, result |-> IndexAbsent,
            indexBefore |-> IndexAbsent, n |-> 0]

ShellInit ==
    /\ isFallbackPageActive = FALSE
    /\ currentTrayStatus = "disconnected"
    /\ navigation = [page |-> "none", loading |-> "app"]
    /\ permissionCache = NULL
    /\ permissionCheckInFlight = 0
    /\ permissionChecks = <<>>
    /\ toastHandler = NULL
    /\ unregisters = {}
    /\ notifyLast = NoNotify
    /\ appReady = FALSE
    /\ whenReadyRan = FALSE
    /\ pendingDeepLinks = <<>>
    /\ linkLog = [arrived |-> 0, queued |-> <<>>, handled |-> <<>>]
    /\ calls = <<>>
    /\ backendWrites = <<>>
    /\ localEntries = [n \in LocalAccounts |-> IndexAbsent]
    /\ localLast = NoLocal

\* The primary failures seen so far, after an operation that reports ret: "none",
\* "entry" (only deletions of single accounts inside clear were rejected) or "call"
\* (the import, or a keytar call that an operation awaits directly, failed).
Seen(ret) ==
    IF failureSeen = "call" \/ ret.pfail \notin {"none", "deletePassword"} THEN "call"
    ELSE IF ret.pfail = "deletePassword" THEN "entry"
    ELSE failureSeen

CommitStore(s) ==
    /\ vault' = s.vault
    /\ fallback' = s.fallback
    /\ secureKeyIndex' = s.index
    /\ keytarClient' = s.client
    /\ keytarLoadError' = s.loadError
    /\ keytarFallbackWarned' = s.warned
    /\ warnings' = s.warnings
    /\ probeAttempts' = s.probes

Commit(s) == CommitStore(s) /\ UNCHANGED shellVars

\* A fresh process over a store that may hold pre-namespace entries.
Init ==
    /\ keytarClient = "none"
    /\ keytarLoadError = FALSE
    /\ keytarFallbackWarned = FALSE
    /\ warnings = 0
    /\ failureSeen = "none"
    /\ \E L \in SUBSET LegacyKeys :
          vault = [a \in Accounts |-> IF a \in L THEN "v1" ELSE NULL]
    /\ \E L \in SUBSET LegacyKeys :
          fallback = [a \in Accounts |->
                         IF a \in L THEN toBase64(encryptString("v1")) ELSE NULL]
    /\ secureKeyIndex = IndexAbsent
    /\ probeAttempts = 0
    /\ liveSets = {}
    /\ last = NoRet
    /\ ops = 0
    /\ ShellInit

Get(key, probe, failAt, encAvail) ==
    /\ ops < MaxOps
    /\ CanonInputs(probe, failAt, GetCalls(key), encAvail)
    /\ \E r \in {secureGetValue(St, key,
                    [probe |-> probe, failAt |-> failAt, encAvail |-> encAvail])} :
          /\ Commit(r.s)
          /\ last' = [r.ret EXCEPT !.setsBefore = liveSets]
          /\ failureSeen' = Seen(r.ret)
    /\ liveSets' = liveSets
    /\ ops' = ops + 1

Set(key, value, probe, failAt, encAvail) ==
    /\ ops < MaxOps
    /\ CanonInputs(probe, failAt, 1, encAvail)
    /\ \E r \in {secureSetValue(St, key, value,
                    [probe |-> probe, failAt |-> failAt, encAvail |-> encAvail])} :
          /\ Commit(r.s)
          /\ last' = [r.ret EXCEPT !.setsBefore = liveSets]
          /\ failureSeen' = Seen(r.ret)
          /\ liveSets' = IF r.ret.outcome = "ok" THEN liveSets \cup {key} ELSE liveSets
    /\ ops' = ops + 1

Remove(key, probe, failAt) ==
    /\ ops < MaxOps
    /\ CanonInputs(probe, failAt, 2, TRUE)
    /\ \E r \in {secureDeleteValue(St, key, [probe |-> probe, failAt |-> failAt])} :
          /\ Commit(r.s)
          /\ last' = [r.ret EXCEPT !.setsBefore = liveSets, !.again = Again(r.ret)]
          /\ failureSeen' = Seen(r.ret)
    /\ liveSets' = liveSets \ {key}
    /\ ops' = ops + 1

Clear(probe, failFind, failAccts) ==
    /\ ops < MaxOps
    /\ CanonProbe(probe)
    /\ failFind => (ReachesKeytar(probe) /\ (IF Unprobed THEN probe ELSE keytarClient) = "full")
    /\ failAccts \subseteq
          (IF ReachesKeytar(probe) /\ ~failFind
           THEN ClearAttempted([St EXCEPT !.client = IF Unprobed THEN probe ELSE @],
                               getTrackedSecureKeys(secureKeyIndex), {})
           ELSE {})
    /\ \E r \in {clearSecureValues(St,
                    [probe |-> probe, failFind |-> failFind, failAccts |-> failAccts])} :
          /\ Commit(r.s)
          /\ last' = [r.ret EXCEPT !.setsBefore = liveSets]
          /\ failureSeen' = Seen(r.ret)
    /\ liveSets' = {}
    /\ ops' = ops + 1

\* The process exits and a new one starts: module state is fresh, stores persist.
\* (History: a restart directly after a successful set keeps that set's report.)
Restart ==
    /\ ops < MaxOps
    /\ keytarClient' = "none"
    /\ keytarLoadError' = FALSE
    /\ keytarFallbackWarned' = FALSE
    /\ warnings' = 0
    /\ failureSeen' = "none"
    /\ probeAttempts' = 0
    /\ last' = [(IF last.op = "set" /\ last.outcome = "ok" THEN last ELSE NoRet)
                   EXCEPT !.op = "restart", !.setsBefore = liveSets]
    /\ ops' = ops + 1
    /\ UNCHANGED <<vault, fallback, secureKeyIndex, liveSets, shellVars>>

\* A stored ciphertext stops being decryptable (file damage, another OS session).
CorruptFallback(acct) ==
    /\ ops < MaxOps
    /\ fallback[acct] \in Ciphertexts
    /\ fallback' = [fallback EXCEPT ![acct] = Garbage]
    /\ last' = [NoRet EXCEPT !.op = "corrupt", !.key = acct, !.setsBefore = liveSets]
    /\ ops' = ops + 1
    /\ UNCHANGED <<keytarClient, keytarLoadError, keytarFallbackWarned, warnings,
                   vault, secureKeyIndex, probeAttempts, failureSeen, liveSets,
                   shellVars>>

Next ==
    \/ \E k \in Keys, p \in Probes, f \in 0..4, e \in BOOLEAN : Get(k, p, f, e)
    \/ \E k \in Keys, v \in Values, p \in Probes, f \in 0..1, e \in BOOLEAN :
          Set(k, v, p, f, e)
    \/ \E k \in Keys, p \in Probes, f \in 0..2 : Remove(k, p, f)
    \/ \E p \in Probes, ff \in BOOLEAN, fa \in SUBSET Accounts : Clear(p, ff, fa)
    \/ Restart
    \/ \E a \in Accounts : CorruptFallback(a)

Spec == Init /\ [][Next]_vars

-----------------------------------------------------------------------------
(* Helpers for the properties *)

GetInputs == [probe : Probes, failAt : 0..4, encAvail : BOOLEAN]

\* Every way a get(key) issued in state s can end.
GetOutcomes(s, key) == {secureGetValue(s, key, i).ret : i \in GetInputs}

TrackedNow == getTrackedSecureKeys(secureKeyIndex)

StoreOps == {"get", "set", "remove", "clear"}

\* The fallback path was entered because the primary was unavailable or a primary
\* read rejected (not because a migration write or delete rejected after the primary
\* had already resolved the value).
ReadFailures == {"probe", "memo", "getNamespaced", "getLegacy"}

\* r is a completed get that backend b served.
ServedBy(r, b) ==
    /\ r.op = "get"
    /\ r.outcome = "ok"
    /\ r.served = b
    /\ (b = "fallback" => r.pfail \in ReadFailures)

\* The entries of account a in backend b.
Entry(b, a) == IF b = "primary" THEN vault[a] ELSE fallback[a]

\* The plaintext a stored entry of backend b stands for (NULL if undecryptable).
Plain(b, stored) ==
    IF b = "primary" THEN stored ELSE decryptFallbackSecureValue(stored)

-----------------------------------------------------------------------------
(* Properties *)

\* C1 (round trip): a get(k) that directly follows a successful set(k, v) and is
\* served by the backend that served the set returns exactly v, on the primary
\* vault and on the fallback map alike.
C1_RoundTrip ==
    [][(/\ last.op = "set" /\ last.outcome = "ok"
        /\ last'.op = "get" /\ last'.outcome = "ok"
        /\ last'.key = last.key
        /\ last'.served = last.served)
       => last'.result = last.value]_vars

\* C1 witness: a get served by the fallback map returned the value of a key that
\* had been set before.
C1_Witness ==
    /\ last.op = "get" /\ last.outcome = "ok" /\ last.served = "fallback"
    /\ last.key \in last.setsBefore
    /\ last.result \in Values
    /\ last.nsBefore = toBase64(encryptString(last.result))

\* C2 (index invariant), in its weakest reading: a key in the index can be read as
\* non-null by at least one completing get, and a key outside the index can be read
\* as null by at least one completing get.
C2_IndexExact ==
    (last.op \in StoreOps /\ last.outcome = "ok") =>
    \A k \in Keys :
        /\ k \in TrackedNow =>
              \E r \in GetOutcomes(St, k) : r.outcome = "ok" /\ r.result # NULL
        /\ k \notin TrackedNow =>
              \E r \in GetOutcomes(St, k) : r.outcome = "ok" /\ r.result = NULL

\* What C3 asserts of the state a clear() leaves behind.
ClearedFor(K) ==
    /\ \A k \in K : \A r \in GetOutcomes(St, k) : r.outcome = "ok" => r.result = NULL
    /\ TrackedNow = {}
    /\ secureKeyIndex = IndexAbsent

MigratedBy(b) ==
    /\ last.result # NULL
    /\ last.result = Plain(b, last.legacyBefore)
    /\ Entry(b, getSecureStorageKey(last.key)) = last.legacyBefore
    /\ Entry(b, last.key) = NULL

\* What C4 asserts of the get(k) that follows a migrating get(k) on the same
\* backend: the same value, and no change to either backend or to the index.
SecondGetChangesNothing ==
    [][(/\ \E b \in {"primary", "fallback"} : ServedBy(last, b) /\ ServedBy(last', b)
        /\ last.migrated
        /\ last'.key = last.key)
       => (/\ last'.result = last.result
           /\ UNCHANGED <<vault, fallback, secureKeyIndex>>)]_vars

\* C4 as stated (migration idempotence): whenever the serving backend holds only a
\* legacy entry for k, the first get(k) returns the legacy value and migrates it;
\* a second get(k) returns the same value and changes nothing.
C4_MigrationIdempotence ==
    /\ [](\A b \in {"primary", "fallback"} :
            (ServedBy(last, b) /\ last.nsBefore = NULL /\ last.legacyBefore # NULL)
                => MigratedBy(b))
    /\ SecondGetChangesNothing

\* C4 amended: the same, where on the fallback path the legacy ciphertext is one
\* that decrypts (an undecryptable legacy entry is read as null and left in place).
C4_MigrationIdempotenceDecryptable ==
    /\ [](\A b \in {"primary", "fallback"} :
            (/\ ServedBy(last, b) /\ last.nsBefore = NULL /\ last.legacyBefore # NULL
             /\ Plain(b, last.legacyBefore) # NULL)
                => MigratedBy(b) /\ last.migrated)
    /\ SecondGetChangesNothing

\* C4 witness: a second get(k) on the fallback map, right after the get(k) that
\* migrated the legacy ciphertext of k there.
C4_Witness ==
    /\ ServedBy(last, "fallback")
    /\ ~last.migrated
    /\ last.key \in TrackedNow
    /\ last.key \notin last.setsBefore
    /\ last.nsBefore \in Ciphertexts
    /\ last.result = "v1"
    /\ ops = 2

\* C5 (never both forms after a read): after a get(k) that returned, the backend
\* that served it does not hold both a namespaced and a legacy entry for k.
C5_NeverBothForms ==
    \A b \in {"primary", "fallback"} :
        ServedBy(last, b)
            => ~(/\ Entry(b, getSecureStorageKey(last.key)) # NULL
                 /\ Entry(b, last.key) # NULL)

\* C6 (namespaced precedence): a get(k) served by a backend that holds a namespaced
\* entry for k returns that entry's value, never the legacy one; and the resolver
\* yields (namespaced, no migration) for a namespaced string, else (legacy,
\* migration) for a legacy string, else (null, no migration).
C6_NamespacedPrecedence ==
    (last.op = "get" /\ last.outcome = "ok" /\ last.served # "none") =>
        LET r == resolveStoredValue(last.nsBefore, last.legacyBefore)
        IN /\ last.nsBefore # NULL =>
                /\ r = [value |-> last.nsBefore, shouldMigrateLegacyValue |-> FALSE]
                /\ last.result = Plain(last.served, last.nsBefore)
                /\ ~last.migrated
           /\ (last.nsBefore = NULL /\ last.legacyBefore # NULL) =>
                r = [value |-> last.legacyBefore, shouldMigrateLegacyValue |-> TRUE]
           /\ (last.nsBefore = NULL /\ last.legacyBefore = NULL) =>
                /\ r = [value |-> NULL, shouldMigrateLegacyValue |-> FALSE]
                /\ last.result = NULL

\* C6 witness: a get returned the namespaced value while a different legacy value
\* was stored for the same key.
C6_Witness ==
    /\ last.op = "get" /\ last.outcome = "ok" /\ last.served = "primary"
    /\ last.nsBefore = "v2" /\ last.legacyBefore = "v1"
    /\ last.result = "v2"

\* C7 (sticky probe): within one process the keytar import is attempted at most
\* once; the probe state only moves from not-probed to available or to unavailable
\* and then stays; once unavailable, no operation calls keytar or is served by it.
C7_StickyProbe ==
    /\ [](probeAttempts <= 1)
    /\ [](~(keytarClient # "none" /\ keytarLoadError))
    /\ [][last'.op # "restart" =>
            /\ (keytarClient # "none" =>
                    keytarClient' = keytarClient /\ probeAttempts' = probeAttempts)
            /\ (keytarLoadError =>
                    /\ keytarLoadError' /\ keytarClient' = "none"
                    /\ probeAttempts' = probeAttempts
                    /\ (last'.op \in StoreOps =>
                            last'.pcalls = 0 /\ last'.served # "primary"))]_vars

\* C7 witness: an operation ran on the fallback path from the memoized load error.
C7_Witness ==
    /\ last.op \in StoreOps /\ last.pfail = "memo"
    /\ keytarLoadError /\ probeAttempts = 1

C9_SetRaisesWithoutBackend ==
    [][(last'.op = "set" /\ last'.pfail # "none" /\ last'.enc = "no")
       => (/\ last'.outcome = "throw"
           /\ last'.error # "none"
           /\ UNCHANGED <<fallback, secureKeyIndex>>)]_vars

\* C9 witness: a set raised after keytar's setPassword rejected.
C9_Witness ==
    /\ last.op = "set" /\ last.outcome = "throw"
    /\ last.pfail = "setPassword" /\ last.enc = "no"

\* The ciphertext the fallback path of the last get resolved.
ResolvedCiphertext ==
    resolveStoredValue(last.nsBefore, last.legacyBefore).value

\* C10 (decryption failure tolerance): a get(k) on the fallback path whose
\* resolved ciphertext does not decrypt returns null and does not raise.
C10_DecryptFailureIsNull ==
    (/\ last.op = "get" /\ last.served = "fallback"
     /\ ResolvedCiphertext # NULL
     /\ decryptString(ResolvedCiphertext) = "throw")
        => (last.outcome = "ok" /\ last.result = NULL /\ last.error = "none")

\* C10 witness: a get read an undecryptable namespaced ciphertext of a key that had
\* been set.
C10_Witness ==
    /\ last.op = "get" /\ last.served = "fallback"
    /\ last.nsBefore = Garbage
    /\ last.key \in last.setsBefore
    /\ last.result = NULL

-----------------------------------------------------------------------------
\* How the primary behaved during an operation: reachable with every call
\* succeeding ("none"), unavailable, or reachable with a given call rejecting.
PrimaryBehaviour(r) == IF r.pfail \in {"probe", "memo"} THEN "unavailable" ELSE r.pfail

\* C11 (remove idempotence): remove(k) never raises, whatever the primary does and
\* whether or not k is stored anywhere; and a second remove(k) directly after the
\* first, with the primary behaving as it did during the first, does not raise
\* either and leaves the vault, the fallback map and the index as they were.
C11_RemoveIdempotent ==
    [][ last'.op = "remove" =>
          /\ last'.outcome = "ok"
          /\ (last.op = "remove" /\ last.key = last'.key
                 /\ PrimaryBehaviour(last) = PrimaryBehaviour(last'))
              => UNCHANGED <<vault, fallback, secureKeyIndex>> ]_vars

\* A second remove of the same key ran directly after a first one whose deletion of
\* the namespaced account had been rejected, and it was rejected again.
C11_Witness ==
    /\ last.op = "remove" /\ last.again /\ last.outcome = "ok"
    /\ last.pfail = "deleteNamespaced"
    /\ vault[last.key] # NULL

-----------------------------------------------------------------------------
\* The accounts of the vault, and keys of the fallback map, that belong to key k.
EntriesOf(k) == {getSecureStorageKey(k), k}

\* Neither backend holds a namespaced or a legacy entry for k in state s.
NoEntryFor(s, k) == \A a \in EntriesOf(k) : s.vault[a] = NULL /\ s.fallback[a] = NULL

\* C12 (remove effect): after a remove(k) during which no primary deletion failed,
\* neither backend holds a namespaced or legacy entry for k, k is not in the index
\* and get(k) returns null; the entries and the index membership of every other
\* key are as they were before the remove.
C12_RemoveEffect ==
    [][ (last'.op = "remove" /\ last'.pfail = "none") =>
          LET k == last'.key IN
          /\ NoEntryFor(St', k)
          /\ k \notin TrackedNow'
          /\ \A r \in GetOutcomes(St', k) : r.outcome = "ok" => r.result = NULL
          /\ \A j \in Keys \ {k} :
                /\ \A a \in EntriesOf(j) : vault'[a] = vault[a] /\ fallback'[a] = fallback[a]
                /\ (j \in TrackedNow') = (j \in TrackedNow) ]_vars

\* The same with "every other key" narrowed to the keys that share no account with k
\* (not a claim of the specification; it locates the failure of C12).
RemoveEffectApartFromSharedAccounts ==
    [][ (last'.op = "remove" /\ last'.pfail = "none") =>
          LET k == last'.key IN
          /\ NoEntryFor(St', k)
          /\ k \notin TrackedNow'
          /\ \A r \in GetOutcomes(St', k) : r.outcome = "ok" => r.result = NULL
          /\ \A j \in Keys \ {k} :
                /\ \A a \in EntriesOf(j) \ EntriesOf(k) :
                      vault'[a] = vault[a] /\ fallback'[a] = fallback[a]
                /\ (j \in TrackedNow') = (j \in TrackedNow) ]_vars

-----------------------------------------------------------------------------
(* The Secure Key Index on its own: the index functions applied to whatever the *)
(* local store holds under the reserved key, which anything able to write the   *)
(* store file may have put there.                                               *)

\* A stored entry that is not a valid key.
BadEntry == <<"/">>

MaxIndexLen == 2

RECURSIVE EntrySeqs(_)
EntrySeqs(n) ==
    IF n = 0 THEN {<<>>}
    ELSE LET shorter == EntrySeqs(n - 1)
         IN shorter \cup {Append(q, e) : q \in {x \in shorter : Len(x) = n - 1},
                                         e \in Keys \cup {BadEntry}}

\* Stored values that are not parseable as a JSON array: text that JSON.parse
\* rejects ("notjson"), the empty string ("empty"), and valid JSON that is not an
\* array, such as {"a":1} ("nonarray").
Unparseable == {"notjson", "empty", "nonarray"}

StoredIndexValues ==
    {IndexAbsent} \cup {[kind |-> k, entries |-> <<>>] : k \in Unparseable}
    \cup {[kind |-> "array", entries |-> q] : q \in EntrySeqs(MaxIndexLen)}

IndexInit ==
    /\ keytarClient = "none"
    /\ keytarLoadError = FALSE
    /\ keytarFallbackWarned = FALSE
    /\ warnings = 0
    /\ failureSeen = "none"
    /\ vault = [a \in Accounts |-> NULL]
    /\ fallback = [a \in Accounts |-> NULL]
    /\ secureKeyIndex \in StoredIndexValues
    /\ probeAttempts = 0
    /\ liveSets = {}
    /\ last = NoRet
    /\ ops = 0
    /\ ShellInit

IndexStep(raw, ret) ==
    /\ secureKeyIndex' = raw
    /\ last' = [ret EXCEPT !.rawBefore = secureKeyIndex]
    /\ ops' = ops + 1
    /\ UNCHANGED <<keytarClient, keytarLoadError, keytarFallbackWarned, warnings,
                   vault, fallback, probeAttempts, failureSeen, liveSets, shellVars>>

ReadIndex ==
    /\ ops < MaxOps
    /\ \E r \in {readSecureKeyIndex(secureKeyIndex)} :
          IndexStep(r.raw, [NoRet EXCEPT !.op = "readIndex", !.tracked = r.keys])

TrackKey(key) ==
    /\ ops < MaxOps
    /\ \E raw \in {trackSecureKey(secureKeyIndex, key)} :
          IndexStep(raw, [NoRet EXCEPT !.op = "track", !.key = key])

UntrackKey(key) ==
    /\ ops < MaxOps
    /\ \E raw \in {untrackSecureKey(secureKeyIndex, key)} :
          IndexStep(raw, [NoRet EXCEPT !.op = "untrack", !.key = key])

\* Something writes directly under the reserved key.
DamageIndex(raw) ==
    /\ ops < MaxOps
    /\ raw # secureKeyIndex
    /\ IndexStep(raw, [NoRet EXCEPT !.op = "damage"])

IndexNext ==
    \/ ReadIndex
    \/ \E k \in Keys : TrackKey(k)
    \/ \E k \in Keys : UntrackKey(k)
    \/ \E raw \in StoredIndexValues : DamageIndex(raw)

SpecIndex == IndexInit /\ [][IndexNext]_vars

\* C13 (index self-healing): whenever the value under the reserved index key is not
\* parseable as a JSON array (not valid JSON, or valid JSON that is not an array),
\* reading the index returns the empty set and deletes the stored value, so that
\* the reserved key is absent afterwards.
C13_IndexSelfHealing ==
    (last.op = "readIndex" /\ last.rawBefore.kind \in Unparseable)
        => (last.tracked = {} /\ secureKeyIndex = IndexAbsent)

-----------------------------------------------------------------------------
(* The secure-storage IPC handlers (index.ts 1361-1391): sender check, argument *)
(* validation, then the store operation.  An argument is whatever the renderer  *)
(* sent: a string, given by its text, or a value of another type.               *)

MaxValueLen == 1048576

\* A string of MaxValueLen + 1 characters.
Oversized == "v{1048577}"

ValueLen(text) == IF text = Oversized THEN MaxValueLen + 1 ELSE 2

Str(text) == [type |-> "string", text |-> text]

\* An argument that is not a string (a number, an object, undefined).
NotAStringKey == [type |-> "other", text |-> <<>>]

NotAStringValue == [type |-> "other", text |-> NULL]

\* The empty key, a key with a character outside the class, a key of 257 characters.
MalformedKeys == {<<>>, <<"/">>, <<Run255, "a", "b">>}

RawKeys == {Str(k) : k \in Keys \cup MalformedKeys} \cup {NotAStringKey}

RawValues == {Str(v) : v \in Values \cup {Oversized}} \cup {NotAStringValue}

\* validateStorageKey of the main process: "ok" or the message of the error thrown.
validateStorageKey(key) ==
    IF key.type # "string" THEN "Storage key must be a string"
    ELSE IF KeyLen(key.text) = 0 \/ KeyLen(key.text) > MaxKeyLen
    THEN "Storage key length is invalid"
    ELSE IF \E i \in 1..Len(key.text) : key.text[i] \notin ValidToks
    THEN "Storage key contains invalid characters"
    ELSE "ok"

\* Mutant: the size limit is not enforced.
validateStorageValue_NoLimit(value) ==
    IF value.type # "string" THEN "Storage value must be a string" ELSE "ok"

validateStorageValue(value) ==
    IF value.type # "string" THEN "Storage value must be a string"
    ELSE IF ValueLen(value.text) > MaxValueLen THEN "Storage value exceeds 1MB"
    ELSE "ok"

ValidationErrors ==
    {"Storage key must be a string", "Storage key length is invalid",
     "Storage key contains invalid characters", "Storage value must be a string",
     "Storage value exceeds 1MB"}

\* The sender of an IPC call: the URL of its frame (missing, of a trusted origin,
\* a data:text/html URL, or any other) and whether it is the main window's page.
Senders == [url : {"missing", "trusted", "dataHtml", "other"}, main : BOOLEAN]

\* Mutant: any data:text/html sender is allowed.
validateSender_AnyDataUrl(sender) == sender.url \in {"trusted", "dataHtml"}

\* validateSender (index.ts 1200-1221).
validateSender(sender) ==
    IF sender.url = "missing" THEN FALSE
    ELSE IF sender.url = "trusted" THEN TRUE
    ELSE isFallbackPageActive /\ sender.url = "dataHtml" /\ sender.main

\* A handler throws before it reaches the store.
Rejected(s, op, error) ==
    [s |-> s, ret |-> [NoRet EXCEPT !.op = op, !.outcome = "throw", !.error = error]]

SecureStorageGet(s, trusted, key, inp) ==
    IF ~trusted THEN Rejected(s, "get", "IPC call from untrusted origin")
    ELSE IF validateStorageKey(key) # "ok" THEN Rejected(s, "get", validateStorageKey(key))
    ELSE secureGetValue(s, key.text, inp)

SecureStorageSet(s, trusted, key, value, inp) ==
    IF ~trusted THEN Rejected(s, "set", "IPC call from untrusted origin")
    ELSE IF validateStorageKey(key) # "ok" THEN Rejected(s, "set", validateStorageKey(key))
    ELSE IF validateStorageValue(value) # "ok"
    THEN Rejected(s, "set", validateStorageValue(value))
    ELSE secureSetValue(s, key.text, value.text, inp)

SecureStorageRemove(s, trusted, key, inp) ==
    IF ~trusted THEN Rejected(s, "remove", "IPC call from untrusted origin")
    ELSE IF validateStorageKey(key) # "ok"
    THEN Rejected(s, "remove", validateStorageKey(key))
    ELSE secureDeleteValue(s, key.text, inp)

SecureStorageClear(s, trusted, inp) ==
    IF ~trusted THEN Rejected(s, "clear", "IPC call from untrusted origin")
    ELSE clearSecureValues(s, inp)

MaxIpcOps == 2

\* The remote app's page in the main window, and a page of a foreign origin.
IpcSenders == {[url |-> "trusted", main |-> TRUE], [url |-> "other", main |-> FALSE]}

\* A request that never reaches the store consults none of the store's inputs.
CanonRequest(reaches, probe, failAt, ncalls, encAvail) ==
    IF reaches THEN CanonInputs(probe, failAt, ncalls, encAvail)
    ELSE probe = "full" /\ failAt = 0 /\ encAvail

\* Arguments a handler never looks at are held at one value: the key when the
\* sender is rejected, the value when the sender or the key is.
CanonKey(trusted, key) == trusted \/ key = NotAStringKey

CanonValue(trusted, key, value) ==
    (trusted /\ validateStorageKey(key) = "ok") \/ value = NotAStringValue

IpcCommit(r, sender, key, value) ==
    /\ Commit(r.s)
    /\ failureSeen' = Seen(r.ret)
    /\ last' = [r.ret EXCEPT !.setsBefore = liveSets, !.sender = sender,
                             !.trusted = validateSender(sender),
                             !.request = [@ EXCEPT !.key = key, !.value = value]]
    /\ ops' = ops + 1

IpcGet(sender, key, probe, failAt, encAvail) ==
    /\ ops < MaxIpcOps
    /\ CanonKey(validateSender(sender), key)
    /\ LET reaches == validateSender(sender) /\ validateStorageKey(key) = "ok"
       IN CanonRequest(reaches, probe, failAt,
                       IF reaches THEN GetCalls(key.text) ELSE 0, encAvail)
    /\ \E r \in {SecureStorageGet(St, validateSender(sender), key,
                    [probe |-> probe, failAt |-> failAt, encAvail |-> encAvail])} :
          IpcCommit(r, sender, key, NoRet.request.value)
    /\ liveSets' = liveSets

IpcSet(sender, key, value, probe, failAt, encAvail) ==
    /\ ops < MaxIpcOps
    /\ CanonKey(validateSender(sender), key) /\ CanonValue(validateSender(sender), key, value)
    /\ CanonRequest(validateSender(sender) /\ validateStorageKey(key) = "ok"
                       /\ validateStorageValue(value) = "ok",
                    probe, failAt, 1, encAvail)
    /\ \E r \in {SecureStorageSet(St, validateSender(sender), key, value,
                    [probe |-> probe, failAt |-> failAt, encAvail |-> encAvail])} :
          /\ IpcCommit(r, sender, key, value)
          /\ liveSets' = IF r.ret.outcome = "ok" THEN liveSets \cup {key.text}
                         ELSE liveSets

IpcRemove(sender, key, probe, failAt) ==
    /\ ops < MaxIpcOps
    /\ CanonKey(validateSender(sender), key)
    /\ CanonRequest(validateSender(sender) /\ validateStorageKey(key) = "ok", probe, failAt, 2, TRUE)
    /\ \E r \in {SecureStorageRemove(St, validateSender(sender), key,
                    [probe |-> probe, failAt |-> failAt])} :
          /\ IpcCommit(r, sender, key, NoRet.request.value)
          /\ liveSets' = IF r.ret.outcome = "ok" THEN liveSets \ {key.text}
                         ELSE liveSets

IpcClear(sender, probe, failFind) ==
    /\ ops < MaxIpcOps
    /\ IF validateSender(sender)
       THEN /\ CanonProbe(probe)
            /\ failFind => (ReachesKeytar(probe)
                              /\ (IF Unprobed THEN probe ELSE keytarClient) = "full")
       ELSE probe = "full" /\ ~failFind
    /\ \E r \in {SecureStorageClear(St, validateSender(sender),
                    [probe |-> probe, failFind |-> failFind, failAccts |-> {}])} :
          /\ IpcCommit(r, sender, NoRet.request.key, NoRet.request.value)
          /\ liveSets' = IF r.ret.outcome = "ok" THEN {} ELSE liveSets

IpcNext ==
    \/ \E t \in IpcSenders, k \in RawKeys, p \in Probes, f \in 0..4, e \in BOOLEAN :
          IpcGet(t, k, p, f, e)
    \/ \E t \in IpcSenders, k \in RawKeys, v \in RawValues, p \in Probes, f \in 0..1,
          e \in BOOLEAN : IpcSet(t, k, v, p, f, e)
    \/ \E t \in IpcSenders, k \in RawKeys, p \in Probes, f \in 0..2 : IpcRemove(t, k, p, f)
    \/ \E t \in IpcSenders, p \in Probes, ff \in BOOLEAN : IpcClear(t, p, ff)

SpecIpc == Init /\ [][IpcNext]_vars

\* What a request must satisfy: a string key of 1 to 256 characters of the class,
\* and for set a string value of at most 1MB.
WellFormedKey(key) == key.type = "string" /\ isValidStorageKey(key.text)

WellFormedValue(value) == value.type = "string" /\ ValueLen(value.text) <= MaxValueLen

Malformed(r) ==
    \/ r.op \in {"get", "set", "remove"} /\ ~WellFormedKey(r.request.key)
    \/ r.op = "set" /\ ~WellFormedValue(r.request.value)

\* C14 (validation before I/O): a get/set/remove request, from a trusted sender, with
\* an invalid key, or a set request whose value is not a string or exceeds 1MB, is
\* rejected with a validation error, and nothing has happened by then: no keytar
\* import, no read or write of the vault or the fallback map, no index update; the
\* persisted and the in-memory state of the store are as before.
C14_ValidationBeforeIO ==
    [][ (last'.trusted /\ Malformed(last')) =>
          /\ last'.outcome = "throw"
          /\ last'.error \in ValidationErrors
          /\ last'.pcalls = 0 /\ ~last'.fbRead /\ last'.enc = "unchecked"
          /\ UNCHANGED <<keytarClient, keytarLoadError, keytarFallbackWarned, warnings,
                         vault, fallback, secureKeyIndex, probeAttempts>> ]_vars

\* A set with a valid key and an oversized value was rejected in a fresh process
\* whose store holds an entry.
C14_Witness ==
    /\ last.op = "set" /\ last.trusted
    /\ WellFormedKey(last.request.key)
    /\ last.request.value = Str(Oversized)
    /\ last.error = "Storage value exceeds 1MB"
    /\ Unprobed /\ probeAttempts = 0
    /\ \E a \in Accounts : fallback[a] # NULL

-----------------------------------------------------------------------------
\* C15 (the primary-unavailable error is never surfaced): whenever get, set, remove
\* or clear raises, the error the caller receives is the distinct "no secure storage
\* backend" error, never the memoized failure of the keytar import.
C15_PrimaryErrorNeverSurfaced ==
    (last.op \in StoreOps /\ last.outcome = "throw") => last.error = "noBackend"

-----------------------------------------------------------------------------
\* C16 (warn once): over the lifetime of a store instance, however many get, set,
\* remove and clear operations hit a primary failure, the primary-unavailable
\* warning is logged exactly once, on the first such failure, and never again.
C16_WarnOnce == warnings = IF failureSeen = "none" THEN 0 ELSE 1

\* C16 as amended: the same for every primary failure except a rejected deletion of
\* a single account inside clear(), which is logged per entry and does not count:
\* the warning has been logged once from the first other failure on, and not before.
C16_WarnOnceExceptClearEntries == warnings = IF failureSeen = "call" THEN 1 ELSE 0

\* The third operation of an instance found the import failure memoized by an
\* earlier one, whose failure had logged the warning: it is not logged again.
C16_Witness ==
    /\ ops = 3 /\ last.op \in StoreOps /\ last.pfail = "memo"
    /\ failureSeen = "call" /\ keytarFallbackWarned /\ warnings = 1

-----------------------------------------------------------------------------
\* C17 (persistence across restart): with the primary unavailable, a value written
\* by set(k, v) is returned by get(k) in a new store instance, which starts with
\* fresh in-memory state and the persisted fallback map and index of the old one.
C17_PersistsAcrossRestart ==
    [][ ( /\ last.op = "restart" /\ last.value \in Values
          /\ PrimaryBehaviour(last) = "unavailable"
          /\ last'.op = "get" /\ last'.key = last.key
          /\ PrimaryBehaviour(last') = "unavailable"
          /\ last'.outcome = "ok" )
        => last'.result = last.value ]_vars

\* set, restart, get: the get of the new instance attempted the import itself,
\* found the primary unavailable and returned a value the vault never held.
C17_Witness ==
    /\ ops = 3 /\ last.op = "get" /\ last.pfail = "probe" /\ last.outcome = "ok"
    /\ last.key \in last.setsBefore
    /\ last.result \in Values
    /\ \A a \in Accounts : vault[a] = NULL
    /\ fallback[getSecureStorageKey(last.key)] = toBase64(encryptString(last.result))

-----------------------------------------------------------------------------
\* C18 (clear always completes): clear() never raises and leaves the fallback map
\* without any entry and the Secure Key Index empty, whatever the index held and
\* whatever the primary did: unavailable, without bulk enumeration, enumeration
\* failing, or deletions of single accounts failing.
C18_ClearAlwaysCompletes ==
    last.op = "clear" =>
        /\ last.outcome = "ok"
        /\ \A a \in Accounts : fallback[a] = NULL
        /\ secureKeyIndex = IndexAbsent /\ TrackedNow = {}

\* A clear ran over a non-empty index while the keychain, which has no bulk
\* enumeration, rejected a deletion.
C18_Witness ==
    /\ last.op = "clear" /\ last.tracked # {} /\ last.pfail = "deletePassword"
    /\ keytarClient = "nofind"
    /\ \E a \in Accounts : vault[a] # NULL

-----------------------------------------------------------------------------
(* Key validation on its own: isValidStorageKey (shared/storage.ts) and the two *)
(* functions named validateStorageKey, of the main process and of the preload   *)
(* script, applied to whatever a caller passes.                                 *)

\* /^[a-zA-Z0-9_.-]+$/.test(key): one or more characters, all of the class.
TestKeyPattern(key) == key # <<>> /\ \A i \in 1..Len(key) : key[i] \in ValidToks

\* Mutant: the pattern is written with * and matches the empty string.
preloadValidateStorageKey_Star(key) ==
    IF key.type # "string" THEN "key must be a string"
    ELSE IF KeyLen(key.text) > MaxKeyLen THEN "Storage key too long"
    ELSE IF \E i \in 1..Len(key.text) : key.text[i] \notin ValidToks
    THEN "Storage key contains invalid characters"
    ELSE "ok"

\* validateStorageKey of the preload script: "ok" or the message of the error thrown.
preloadValidateStorageKey(key) ==
    IF key.type # "string" THEN "key must be a string"
    ELSE IF KeyLen(key.text) > MaxKeyLen THEN "Storage key too long"
    ELSE IF ~TestKeyPattern(key.text) THEN "Storage key contains invalid characters"
    ELSE "ok"

MaxKeyToks == 3

CandidateToks == {"a", "1", ".", "-", "_", "/", Run255}

RECURSIVE TokSeqs(_)
TokSeqs(n) ==
    IF n = 0 THEN {<<>>}
    ELSE LET shorter == TokSeqs(n - 1)
         IN shorter \cup {Append(q, c) : q \in {x \in shorter : Len(x) = n - 1},
                                         c \in CandidateToks}

\* The keys 'a.b-c_1' and '../etc/passwd'.
DottedKey == <<"a", ".", "b", "-", "c", "_", "1">>

TraversalKey == <<".", ".", "/", "e", "t", "c", "/", "p", "a", "s", "s", "w", "d">>

CandidateKeys ==
    {Str(k) : k \in TokSeqs(MaxKeyToks) \cup {DottedKey, TraversalKey}}
    \cup {NotAStringKey}

KeysInit ==
    /\ keytarClient = "none"
    /\ keytarLoadError = FALSE
    /\ keytarFallbackWarned = FALSE
    /\ warnings = 0
    /\ failureSeen = "none"
    /\ vault = [a \in Accounts |-> NULL]
    /\ fallback = [a \in Accounts |-> NULL]
    /\ secureKeyIndex = IndexAbsent
    /\ probeAttempts = 0
    /\ liveSets = {}
    /\ \E k \in CandidateKeys : last = [NoRet EXCEPT !.request = [@ EXCEPT !.key = k]]
    /\ ops = 0
    /\ ShellInit

\* The key is put to the three functions.
ValidateKey(key) ==
    /\ ops < MaxOps
    /\ last.op = "none" /\ key = last.request.key
    /\ last' = [last EXCEPT
                  !.op = "validateKey",
                  !.verdicts = [shared  |-> key.type = "string" /\ isValidStorageKey(key.text),
                                main    |-> validateStorageKey(key),
                                preload |-> preloadValidateStorageKey(key)]]
    /\ ops' = ops + 1
    /\ UNCHANGED <<storeVars, shellVars>>

KeysNext == \E k \in CandidateKeys : ValidateKey(k)

SpecKeys == KeysInit /\ [][KeysNext]_vars

\* Code units of the characters a-z, A-Z, 0-9, "_", "." and "-".
ClassCodes == (97..122) \cup (65..90) \cup (48..57) \cup {95, 46, 45}

\* The key has 1 to 256 characters, each of the class.
InKeyLanguage(text) ==
    /\ KeyLen(text) >= 1 /\ KeyLen(text) <= 256
    /\ \A i \in 1..Len(text) : TokCode(text[i]) \in ClassCodes

\* C19 (key validation): isValidStorageKey(k) is true exactly when k has 1 to 256
\* characters, every one in [a-zA-Z0-9_.-]: the empty key, a key of 257 characters
\* and '../etc/passwd' are invalid, 'a.b-c_1' is valid; and validateStorageKey of
\* the main process and validateStorageKey of the preload script accept exactly
\* the same string keys.
C19_KeyValidation ==
    last.op = "validateKey" =>
        LET k == last.request.key IN
        /\ k.type = "string" => (last.verdicts.shared <=> InKeyLanguage(k.text))
        /\ k.type = "string" =>
              ((last.verdicts.main = "ok") <=> (last.verdicts.preload = "ok"))
        /\ k.text = <<>> => ~last.verdicts.shared
        /\ k.text = <<Run255, "a", "a">> => ~last.verdicts.shared
        /\ k.text = TraversalKey => ~last.verdicts.shared
        /\ (k.text = DottedKey /\ k.type = "string") => last.verdicts.shared

\* The three functions have judged a key of exactly 256 characters.
C19_Witness ==
    /\ last.op = "validateKey"
    /\ last.request.key = Str(<<Run255, "a">>)
    /\ last.verdicts = [shared |-> TRUE, main |-> "ok", preload |-> "ok"]

-----------------------------------------------------------------------------
\* C20 (best-effort migration in the primary): when get(k) has read both accounts
\* of the primary and resolved a legacy value, it returns that value even if the
\* write of the namespaced account or the deletion of the legacy account then
\* fails; the failure never aborts the read or changes its result.
C20_MigrationBestEffort ==
    (last.op = "get" /\ last.pfail \in {"migrateSet", "migrateDelete"}) =>
        /\ last.outcome = "ok"
        /\ last.result # NULL
        /\ last.result = (IF last.pfail = "migrateSet" THEN vault[last.key]
                          ELSE vault[getSecureStorageKey(last.key)])

\* ---------------------------------------------------------------------------
\* The main window: loading the remote app, the fallback page, the tray status
\* ---------------------------------------------------------------------------

TrayStatuses == {"connected", "degraded", "disconnected"}

\* updateTrayStatus (index.ts 1185-1192).
updateTrayStatus(status) == currentTrayStatus' = status

\* loadFallbackPage (index.ts 923-1046): raise the flag, load the data: URL page,
\* set the tray status.
loadFallbackPage ==
    /\ isFallbackPageActive' = TRUE
    /\ navigation' = [navigation EXCEPT !.loading = "fallback"]
    /\ updateTrayStatus("disconnected")

\* did-fail-load for the app URL, or the rejected loadURL promise (index.ts 148-168,
\* 1164-1166): the remote app could not be loaded.
DidFailLoad ==
    /\ navigation.loading = "app"
    /\ loadFallbackPage
    /\ UNCHANGED nonWindowVars

\* did-finish-load (index.ts 240-245): the page being loaded, whichever it is, is
\* now displayed.
DidFinishLoad ==
    /\ navigation.loading # "none"
    /\ navigation' = [page |-> navigation.loading, loading |-> "none"]
    /\ isFallbackPageActive' = FALSE
    /\ updateTrayStatus("connected")
    /\ UNCHANGED nonWindowVars

\* The tray menu's Reload (index.ts 1160-1170).
TrayReload ==
    /\ isFallbackPageActive' = FALSE
    /\ navigation' = [navigation EXCEPT !.loading = "app"]
    /\ UNCHANGED <<currentTrayStatus, nonWindowVars>>

\* The fallback page's Retry button: window.location.replace(APP_URL)
\* (index.ts 1019-1028).
RetryConnection ==
    /\ navigation.page = "fallback"
    /\ navigation' = [navigation EXCEPT !.loading = "app"]
    /\ UNCHANGED <<isFallbackPageActive, currentTrayStatus, nonWindowVars>>

UpdaterEvents == {"update-available", "update-not-available", "error"}

\* The auto-updater's events (index.ts 830-894).
UpdaterEvent(kind) ==
    /\ IF kind = "update-not-available"
       THEN IF ~isFallbackPageActive THEN updateTrayStatus("connected")
            ELSE UNCHANGED currentTrayStatus
       ELSE updateTrayStatus("degraded")
    /\ UNCHANGED <<isFallbackPageActive, navigation, nonWindowVars>>

\* The TRAY_SET_STATUS handler (index.ts 1261-1269).
TraySetStatus(sender, status) ==
    /\ IF validateSender(sender) /\ status \in TrayStatuses
       THEN updateTrayStatus(status)
       ELSE UNCHANGED currentTrayStatus
    /\ UNCHANGED <<isFallbackPageActive, navigation, nonWindowVars>>

\* Payloads of the secure-storage calls made while the window changes pages.
WindowKeys == {Str(<<"a">>), NotAStringKey}

WindowValues == {Str("v1"), NotAStringValue}

WindowNext ==
    \/ DidFailLoad
    \/ DidFinishLoad
    \/ TrayReload
    \/ RetryConnection
    \/ \E kind \in UpdaterEvents : UpdaterEvent(kind)
    \/ \E t \in Senders, st \in TrayStatuses \cup {"bogus"} : TraySetStatus(t, st)
    \/ \E t \in Senders, k \in WindowKeys : IpcGet(t, k, "full", 0, TRUE)
    \/ \E t \in Senders, k \in WindowKeys, v \in WindowValues :
          IpcSet(t, k, v, "full", 0, TRUE)
    \/ \E t \in Senders, k \in WindowKeys : IpcRemove(t, k, "full", 0)
    \/ \E t \in Senders : IpcClear(t, "full", FALSE)

SpecWindow == Init /\ [][WindowNext]_vars

\* The sender is the page of a trusted origin, or the fallback page of the main
\* window while the fallback flag is set.
Permitted(sender) ==
    \/ sender.url = "trusted"
    \/ sender.url = "dataHtml" /\ sender.main /\ isFallbackPageActive

SecureStorageOps == {"get", "set", "remove", "clear"}

\* C21: every secure-storage handler call whose sender URL is missing, or is neither
\* a trusted origin nor the data: URL page of the main window while the fallback flag
\* is set, is rejected with the origin error, whatever its payload (rejected calls
\* carry a key and a value that are not strings), without an import of keytar, a
\* keychain call, a safeStorage check, a read of the fallback map, or any change of
\* the store and the index; every other sender is not rejected for its origin.
C21_SenderCheckedFirst ==
    [][ops' = ops + 1 =>
          /\ last'.op \in SecureStorageOps
          /\ last'.trusted = Permitted(last'.sender)
          /\ (last'.error = "IPC call from untrusted origin") <=> ~Permitted(last'.sender)
          /\ ~Permitted(last'.sender) =>
                /\ last'.outcome = "throw"
                /\ last'.pcalls = 0 /\ last'.enc = "unchecked" /\ ~last'.fbRead
                /\ UNCHANGED storeVars]_vars

\* A data: URL page that is not the main window's is rejected while the fallback
\* flag is set, with a payload that would fail validation.
C21_Witness ==
    /\ isFallbackPageActive
    /\ last.sender = [url |-> "dataHtml", main |-> FALSE]
    /\ last.request.key = NotAStringKey
    /\ last.error = "IPC call from untrusted origin"

\* The main window's data: URL page is accepted while the fallback flag is set.
C21_WitnessFallbackPage ==
    /\ isFallbackPageActive
    /\ last.sender = [url |-> "dataHtml", main |-> TRUE]
    /\ last.op = "set" /\ last.outcome = "ok"

\* C25: while the fallback page is the displayed page, the fallback flag is set and
\* the tray status is "disconnected".
C25_FallbackModeHeld ==
    navigation.page = "fallback" =>
        isFallbackPageActive /\ currentTrayStatus = "disconnected"

\* ---------------------------------------------------------------------------
\* Notifications: the permission preflight and the toast handler
\* ---------------------------------------------------------------------------

MaxChecks == 3

MaxResets == 2

\* What requestPermission answers; a rejected promise counts as "false".
PermissionResults == {"true", "false"}

ToastHandlers == {"h1", "h2"}

nonNotifyVars == <<storeVars, last, ops, windowVars, linkVars, raceVars, localVars>>

\* canUseDesktop / checkDesktopPermission (deeplink.test.ts 138-174, 190-195) up to
\* its first suspension: without a bridge the answer is false; a cached answer is
\* returned; a check in flight is joined; otherwise requestPermission is invoked and
\* its promise becomes the check in flight.
CanUseDesktop(bridge) ==
    /\ IF ~bridge THEN
          /\ notifyLast' = [NoNotify EXCEPT !.op = "canUseDesktop", !.result = "false",
                                     !.epoch = notifyLast.epoch,
                                     !.called = notifyLast.called]
          /\ UNCHANGED <<permissionCheckInFlight, permissionChecks>>
       ELSE IF permissionCache # NULL THEN
          /\ notifyLast' = [NoNotify EXCEPT !.op = "canUseDesktop", !.bridge = TRUE,
                                     !.result = permissionCache,
                                     !.epoch = notifyLast.epoch, !.called = TRUE]
          /\ UNCHANGED <<permissionCheckInFlight, permissionChecks>>
       ELSE IF permissionCheckInFlight # 0 THEN
          /\ notifyLast' = [NoNotify EXCEPT !.op = "canUseDesktop", !.bridge = TRUE,
                                     !.waitsFor = permissionCheckInFlight,
                                     !.epoch = notifyLast.epoch, !.called = TRUE]
          /\ UNCHANGED <<permissionCheckInFlight, permissionChecks>>
       ELSE
          /\ Len(permissionChecks) < MaxChecks
          /\ permissionChecks' = Append(permissionChecks,
                                        [epoch |-> notifyLast.epoch, state |-> "pending"])
          /\ permissionCheckInFlight' = Len(permissionChecks) + 1
          /\ notifyLast' = [NoNotify EXCEPT !.op = "canUseDesktop", !.bridge = TRUE,
                                     !.requested = TRUE,
                                     !.waitsFor = Len(permissionChecks) + 1,
                                     !.epoch = notifyLast.epoch, !.called = TRUE]
    /\ UNCHANGED <<permissionCache, toastHandler, unregisters, nonNotifyVars>>

\* The promise of requestPermission settles and the check resumes
\* (deeplink.test.ts 159-171): the answer is cached, the check in flight cleared.
PermissionSettled(id, permitted) ==
    /\ id \in 1..Len(permissionChecks)
    /\ permissionChecks[id].state = "pending"
    /\ permissionChecks' = [permissionChecks EXCEPT ![id].state = "done"]
    /\ permissionCache' = permitted
    /\ permissionCheckInFlight' = 0
    /\ notifyLast' = [NoNotify EXCEPT !.op = "settled", !.result = permitted,
                               !.waitsFor = id, !.epoch = notifyLast.epoch,
                               !.called = notifyLast.called]
    /\ UNCHANGED <<toastHandler, unregisters, nonNotifyVars>>

\* resetPermissionCache (deeplink.test.ts 180-184).
ResetPermissionCache ==
    /\ notifyLast.epoch < MaxResets
    /\ permissionCache' = NULL
    /\ permissionCheckInFlight' = 0
    /\ notifyLast' = [NoNotify EXCEPT !.op = "reset", !.epoch = notifyLast.epoch + 1]
    /\ UNCHANGED <<permissionChecks, toastHandler, unregisters, nonNotifyVars>>

\* Mutant: the unregister function clears whatever is registered.
unregisterToastHandler_Always(current, handler) == NULL

\* The unregister function returned by registerToastHandler (deeplink.test.ts
\* 218-223).
unregisterToastHandler(current, handler) ==
    IF current = handler THEN NULL ELSE current

\* registerToastHandler (deeplink.test.ts 208-224).
RegisterToastHandler(handler) ==
    /\ toastHandler' = handler
    /\ unregisters' = unregisters \cup {handler}
    /\ notifyLast' = [NoNotify EXCEPT !.op = "register", !.handler = handler,
                               !.epoch = notifyLast.epoch,
                               !.called = notifyLast.called]
    /\ UNCHANGED <<permissionCache, permissionCheckInFlight, permissionChecks,
                   nonNotifyVars>>

Unregister(handler) ==
    /\ handler \in unregisters
    /\ toastHandler' = unregisterToastHandler(toastHandler, handler)
    /\ notifyLast' = [NoNotify EXCEPT !.op = "unregister", !.handler = handler,
                               !.epoch = notifyLast.epoch,
                               !.called = notifyLast.called]
    /\ UNCHANGED <<permissionCache, permissionCheckInFlight, permissionChecks,
                   unregisters, nonNotifyVars>>

\* showToast (deeplink.test.ts 240-260): the registered handler, if any, shows it.
ShowToast ==
    /\ notifyLast' = [NoNotify EXCEPT !.op = "showToast", !.handler = toastHandler,
                               !.result = IF toastHandler = NULL THEN "none" ELSE "toast",
                               !.epoch = notifyLast.epoch,
                               !.called = notifyLast.called]
    /\ UNCHANGED <<permissionCache, permissionCheckInFlight, permissionChecks,
                   toastHandler, unregisters, nonNotifyVars>>

NotifyNext ==
    \/ \E bridge \in BOOLEAN : CanUseDesktop(bridge)
    \/ \E id \in 1..MaxChecks, permitted \in PermissionResults :
          PermissionSettled(id, permitted)
    \/ ResetPermissionCache
    \/ \E h \in ToastHandlers : RegisterToastHandler(h)
    \/ \E h \in ToastHandlers : Unregister(h)
    \/ ShowToast

SpecNotify == Init /\ [][NotifyNext]_vars

\* Between two resets requestPermission is invoked at most once.
OneRequestBetweenResets ==
    \A i, j \in 1..Len(permissionChecks) :
        permissionChecks[i].epoch = permissionChecks[j].epoch => i = j

\* C22: the first canUseDesktop call (with a desktop bridge) after
\* resetPermissionCache invokes requestPermission.
C22_RequestsAgainAfterReset ==
    [][(notifyLast'.op = "canUseDesktop" /\ notifyLast'.bridge
          /\ notifyLast.epoch > 0 /\ ~notifyLast.called /\ notifyLast'.called)
       => notifyLast'.requested]_vars

\* C23: registering a handler makes it the registered handler, whatever was
\* registered; the unregister function returned for h leaves no handler registered
\* when h is the registered handler and changes nothing otherwise; a toast is shown
\* by the one registered handler or by none.
C23_ToastHandlerLifecycle ==
    [][/\ notifyLast'.op = "register" => toastHandler' = notifyLast'.handler
       /\ notifyLast'.op = "unregister" =>
             /\ toastHandler = notifyLast'.handler => toastHandler' = NULL
             /\ toastHandler # notifyLast'.handler => toastHandler' = toastHandler
       /\ notifyLast'.op = "showToast" =>
             /\ notifyLast'.handler = toastHandler
             /\ notifyLast'.result = "toast" <=> toastHandler \in ToastHandlers
       /\ toastHandler' \in ToastHandlers \cup {NULL}]_vars

\* h1 was registered, h2 replaced it, and the unregister function of h1 was called:
\* h2 is still registered.
C23_Witness ==
    /\ notifyLast.op = "unregister" /\ notifyLast.handler = "h1"
    /\ toastHandler = "h2"
    /\ unregisters = {"h1", "h2"}

\* ---------------------------------------------------------------------------
\* Deep links: the open-url event and the replay at readiness
\* ---------------------------------------------------------------------------

\* Links delivered by open-url are numbered 1, 2, ... in arrival order; 0 is the
\* link found in the process arguments at startup.
MaxLinks == 3

StartupLink == 0

nonLinkVars == <<storeVars, last, ops, windowVars, notifyVars, raceVars, localVars>>

\* Mutant: the queue is replayed from its end.
replayPendingDeepLinks_Lifo(pending, handled) ==
    [i \in 1..(Len(handled) + Len(pending)) |->
        IF i <= Len(handled) THEN handled[i]
        ELSE pending[Len(pending) + 1 - (i - Len(handled))]]

\* The replay loop (index.ts 1467-1473): shift the queue until it is empty, handing
\* each (non-empty) URL to handleDeepLink. The value is the links handled so far.
RECURSIVE replayPendingDeepLinks(_, _)
replayPendingDeepLinks(pending, handled) ==
    IF Len(pending) > 0
    THEN replayPendingDeepLinks(Tail(pending), Append(handled, Head(pending)))
    ELSE handled

\* The open-url handler (index.ts 102-110).
OpenUrl ==
    /\ linkLog.arrived < MaxLinks
    /\ LET url == linkLog.arrived + 1 IN
          IF appReady
          THEN /\ linkLog' = [linkLog EXCEPT !.arrived = url,
                                            !.handled = Append(@, url)]
               /\ UNCHANGED pendingDeepLinks
          ELSE /\ pendingDeepLinks' = Append(pendingDeepLinks, url)
               /\ linkLog' = [linkLog EXCEPT !.arrived = url,
                                            !.queued = Append(@, url)]
    /\ UNCHANGED <<appReady, whenReadyRan, nonLinkVars>>

\* Electron finishes initialising: app.isReady() is true from now on. The
\* whenReady callback is a separate step that follows; a behaviour in which it
\* follows at once is the case where no event is delivered in between.
Ready ==
    /\ ~appReady
    /\ appReady' = TRUE
    /\ UNCHANGED <<whenReadyRan, pendingDeepLinks, linkLog, nonLinkVars>>

\* The app.whenReady() callback (index.ts 1442-1473), as far as deep links go: the
\* link of the process arguments, if there is one, then the queue.
WhenReady(startupDeepLink) ==
    /\ appReady /\ ~whenReadyRan
    /\ whenReadyRan' = TRUE
    /\ linkLog' = [linkLog EXCEPT !.handled =
                      replayPendingDeepLinks(pendingDeepLinks,
                          IF startupDeepLink THEN Append(@, StartupLink) ELSE @)]
    /\ pendingDeepLinks' = <<>>
    /\ UNCHANGED <<appReady, nonLinkVars>>

LinksNext ==
    \/ OpenUrl
    \/ Ready
    \/ \E startupDeepLink \in BOOLEAN : WhenReady(startupDeepLink)

SpecLinks == Init /\ [][LinksNext]_vars

Occurrences(seq, x) == Cardinality({i \in 1..Len(seq) : seq[i] = x})

InSeq(seq, x) == \E i \in 1..Len(seq) : seq[i] = x

\* C24: a link that arrives before readiness is queued and not handled, and no
\* link is handled while the application is not ready; a link that arrives after
\* readiness is handled in that step and not queued; no link is ever handled twice;
\* once the whenReady callback has run the queue is empty and the queued links have
\* each been handled once, in their arrival order.
C24_DeepLinkQueue ==
    [][/\ ~appReady' => linkLog'.handled = <<>>
       /\ (linkLog'.arrived # linkLog.arrived /\ ~appReady) =>
             /\ pendingDeepLinks' = Append(pendingDeepLinks, linkLog'.arrived)
             /\ linkLog'.handled = linkLog.handled
       /\ (linkLog'.arrived # linkLog.arrived /\ appReady) =>
             /\ pendingDeepLinks' = pendingDeepLinks
             /\ linkLog'.handled = Append(linkLog.handled, linkLog'.arrived)
       /\ \A url \in 0..MaxLinks : Occurrences(linkLog'.handled, url) <= 1
       /\ ~whenReadyRan' =>
             /\ pendingDeepLinks' = linkLog'.queued
             /\ \A url \in 1..MaxLinks :
                   ~(InSeq(linkLog'.queued, url) /\ InSeq(linkLog'.handled, url))
       /\ whenReadyRan' =>
             /\ pendingDeepLinks' = <<>>
             /\ SelectSeq(linkLog'.handled, LAMBDA url : InSeq(linkLog'.queued, url))
                   = linkLog'.queued]_vars

\* Two links were queued before readiness, a third arrived between readiness and
\* the replay, and all three have been handled.
C24_Witness ==
    /\ whenReadyRan
    /\ linkLog.queued = <<1, 2>>
    /\ linkLog.handled = <<3, 1, 2>>

\* ---------------------------------------------------------------------------
\* Concurrent set calls, one step per stretch of code between suspension points
\* ---------------------------------------------------------------------------

MaxCalls == 2

RaceKeys == {<<"a">>, <<"b">>}

RaceProbes == {"full", "fail"}

nonRaceVars == <<last, ops, failureSeen, liveSets, windowVars, notifyVars, linkVars,
                 localVars>>

\* Mutant: an account that already holds a value keeps it.
setPassword_KeepExisting(v, account, value) ==
    IF v[account] = NULL THEN [v EXCEPT ![account] = value] ELSE v

\* keytar.setPassword taking effect in the keychain (index.ts 525).
setPassword(v, account, value) == [v EXCEPT ![account] = value]

Landed(i, backend) ==
    Append(backendWrites, [call |-> i, key |-> calls[i].key,
                           value |-> calls[i].value, backend |-> backend])

\* secureSetValue after its catch (index.ts 528-538), which has no suspension
\* point: warn, check the capability, write the fallback map, track the key.
SetOnFallback(i, encAvail) ==
    \E w \in {warnKeytarFallback(St)} :
       IF ~canUseSafeStorageFallback(encAvail)
       THEN /\ CommitStore(w)
            /\ calls' = [calls EXCEPT ![i].pc = "done", ![i].outcome = "throw"]
            /\ UNCHANGED backendWrites
       ELSE /\ CommitStore([w EXCEPT
                  !.fallback = [@ EXCEPT ![getSecureStorageKey(calls[i].key)] =
                                            toBase64(encryptString(calls[i].value))],
                  !.index = trackSecureKey(@, calls[i].key)])
            /\ calls' = [calls EXCEPT ![i].pc = "done", ![i].outcome = "ok",
                                      ![i].served = "fallback"]
            /\ backendWrites' = Landed(i, "fallback")

\* secureSetValue is called (index.ts 519-524): getKeytar runs to its end, it has
\* no suspension point of its own, and the caller suspends on its promise.
StartSet(key, value, probe) ==
    /\ Len(calls) < MaxCalls
    /\ CanonProbe(probe)
    /\ \E kt \in {getKeytar(St, probe)} :
          /\ CommitStore(kt.s)
          /\ calls' = Append(calls, [key |-> key, value |-> value,
                                     pc |-> "awaitKeytar", available |-> kt.ok,
                                     served |-> "none", outcome |-> "pending",
                                     todo |-> {}, op |-> "set"])
    /\ UNCHANGED <<backendWrites, nonRaceVars>>

\* The call resumes after `await getKeytar()`: with a handle it invokes
\* setPassword and suspends again, without one it continues in the catch.
ResumeAfterKeytar(i, encAvail) ==
    /\ i \in 1..Len(calls)
    /\ calls[i].pc = "awaitKeytar"
    /\ IF calls[i].available
       THEN /\ encAvail
            /\ calls' = [calls EXCEPT ![i].pc = "awaitSet"]
            /\ UNCHANGED <<keytarClient, keytarLoadError, keytarFallbackWarned,
                           warnings, vault, fallback, secureKeyIndex, probeAttempts,
                           backendWrites>>
       ELSE SetOnFallback(i, encAvail)
    /\ UNCHANGED nonRaceVars

\* The keychain completes the setPassword of call i: it either stores the value
\* or rejects.
KeychainSetPassword(i, rejects) ==
    /\ i \in 1..Len(calls)
    /\ calls[i].pc = "awaitSet"
    /\ IF rejects
       THEN /\ calls' = [calls EXCEPT ![i].pc = "setRejected"]
            /\ UNCHANGED <<vault, backendWrites>>
       ELSE /\ vault' = setPassword(vault, getSecureKeychainAccount(calls[i].key),
                                    calls[i].value)
            /\ calls' = [calls EXCEPT ![i].pc = "setResolved"]
            /\ backendWrites' = Landed(i, "primary")
    /\ UNCHANGED <<keytarClient, keytarLoadError, keytarFallbackWarned, warnings,
                   fallback, secureKeyIndex, probeAttempts, nonRaceVars>>

\* The call resumes after `await keytar.setPassword(...)`: trackSecureKey and
\* return (index.ts 526-527), or the catch when the promise was rejected.
ResumeAfterSet(i, encAvail) ==
    /\ i \in 1..Len(calls)
    /\ calls[i].pc \in {"setResolved", "setRejected"}
    /\ IF calls[i].pc = "setResolved"
       THEN /\ encAvail
            /\ secureKeyIndex' = trackSecureKey(secureKeyIndex, calls[i].key)
            /\ calls' = [calls EXCEPT ![i].pc = "done", ![i].outcome = "ok",
                                      ![i].served = "primary"]
            /\ UNCHANGED <<keytarClient, keytarLoadError, keytarFallbackWarned,
                           warnings, vault, fallback, probeAttempts, backendWrites>>
       ELSE SetOnFallback(i, encAvail)
    /\ UNCHANGED nonRaceVars

RaceNext ==
    \/ \E k \in RaceKeys, v \in Values, p \in RaceProbes : StartSet(k, v, p)
    \/ \E i \in 1..MaxCalls, e \in BOOLEAN : ResumeAfterKeytar(i, e)
    \/ \E i \in 1..MaxCalls, r \in BOOLEAN : KeychainSetPassword(i, r)
    \/ \E i \in 1..MaxCalls, e \in BOOLEAN : ResumeAfterSet(i, e)

SpecRace == Init /\ [][RaceNext]_vars

AllDone == Len(calls) > 0 /\ \A i \in 1..Len(calls) : calls[i].pc = "done"

\* Every call found the backend in the same condition: all were served by the
\* primary, or all found it failing and were served by the fallback.
SameBackend ==
    \A i, j \in 1..Len(calls) :
        calls[i].outcome = "ok" /\ calls[i].served = calls[j].served

\* A get on that same backend.
GetOnSameBackend(key) ==
    secureGetValue(St, key,
        [probe |-> "full", encAvail |-> TRUE,
         failAt |-> IF calls[1].served = "fallback" /\ keytarClient # "none"
                    THEN 1 ELSE 0])

LastWrite(key) ==
    LET W == {n \in 1..Len(backendWrites) : backendWrites[n].key = key}
    IN backendWrites[CHOOSE n \in W : \A m \in W : m <= n]

\* C26: when concurrent set calls have all completed on a backend in the same
\* condition for each of them, then for every key they wrote, get returns the value
\* of the write that reached the backend last, and the key is in the index.
C26_LastWriterWins ==
    (AllDone /\ SameBackend) =>
        \A i \in 1..Len(calls) :
            /\ GetOnSameBackend(calls[i].key).ret.outcome = "ok"
            /\ GetOnSameBackend(calls[i].key).ret.result = LastWrite(calls[i].key).value
            /\ calls[i].key \in getTrackedSecureKeys(secureKeyIndex)

\* Two calls for key a with different values both completed on the primary, and
\* the write of the call that started first reached the keychain last.
C26_Witness ==
    /\ AllDone /\ Len(calls) = 2
    /\ calls[1].key = <<"a">> /\ calls[2].key = <<"a">>
    /\ calls[1].value = "v1" /\ calls[2].value = "v2"
    /\ calls[1].served = "primary" /\ calls[2].served = "primary"
    /\ backendWrites[1].call = 2 /\ backendWrites[2].call = 1

\* C27: the key of every set call that has completed successfully is in the index,
\* whatever the other calls are doing.
C27_NoLostIndexUpdate ==
    \A i \in 1..Len(calls) :
        calls[i].outcome = "ok" => calls[i].key \in getTrackedSecureKeys(secureKeyIndex)

\* Sets of a and of b ran interleaved (the later call's write landed first) and
\* both completed successfully.
C27_Witness ==
    /\ AllDone /\ Len(calls) = 2
    /\ calls[1].key = <<"a">> /\ calls[2].key = <<"b">>
    /\ calls[1].outcome = "ok" /\ calls[2].outcome = "ok"
    /\ backendWrites[1].call = 2 /\ backendWrites[2].call = 1

\* C28: the calls started on an instance that had not probed all observe the same
\* classification, which is the memoized one; the import is attempted once; the
\* instance never holds both a handle and a memoized failure.
C28_ProbeRace ==
    /\ ~(keytarClient # "none" /\ keytarLoadError)
    /\ probeAttempts <= 1
    /\ \A i \in 1..Len(calls) :
          /\ calls[i].available <=> keytarClient # "none"
          /\ ~calls[i].available <=> keytarLoadError

\* Two calls started before either resumed, and both found the primary
\* unavailable.
C28_Witness ==
    /\ Len(calls) = 2
    /\ calls[1].pc = "awaitKeytar" /\ calls[2].pc = "awaitKeytar"
    /\ ~calls[1].available /\ ~calls[2].available
    /\ keytarLoadError

StorageUnavailable(r) ==
    r.outcome = "throw" /\ r.error \in {"noBackend", "keytarLoadError"}

\* C29: every get or set that reaches the fallback path looks at the encryption
\* capability as it is at that call, and its outcome follows that answer whatever
\* earlier calls found: with the capability present it completes, also directly
\* after a call that failed for want of a backend; with the capability absent it
\* fails with the no-backend error, also directly after a call the fallback served.
\* A get or set that the primary serves does not look at the capability.
C29_CapabilityNotMemoized ==
    [][(ops' = ops + 1 /\ last'.op \in {"get", "set"}) =>
          /\ (last'.pfail # "none") <=> (last'.enc # "unchecked")
          /\ last'.enc = "yes" => (last'.outcome = "ok" /\ last'.served = "fallback")
          /\ last'.enc = "no" => (StorageUnavailable(last') /\ last'.served = "none")
          /\ last'.enc = "unchecked" => last'.served = "primary"]_vars

\* The fallback map holds an entry for b, which only a set served by the fallback
\* can have written, and the last call, a get or set, found the capability absent
\* and failed for want of a backend.
C29_Witness ==
    /\ fallback[getSecureStorageKey(<<"b">>)] # NULL
    /\ last.op \in {"get", "set"}
    /\ last.enc = "no" /\ StorageUnavailable(last)

\* C30 (set on the primary): a set(k, v) served by the primary stores v in the
\* namespaced primary account of k and adds k to the index; the fallback map and
\* the legacy primary account of k are as before, the entries and the index
\* membership of every other key are as before, the fallback capability is not
\* checked, and the call returns without entering the fallback path.
C30_SetPrimaryFrame ==
    [][(last'.op = "set" /\ last'.served = "primary") =>
          LET k == last'.key IN
          /\ vault'[getSecureKeychainAccount(k)] = last'.value
          /\ k \in TrackedNow'
          /\ fallback' = fallback
          /\ vault'[k] = vault[k]
          /\ last'.enc = "unchecked" /\ last'.pfail = "none" /\ ~last'.fbRead
          /\ last'.outcome = "ok" /\ warnings' = warnings
          /\ \A j \in Keys \ {k} :
                /\ \A a \in EntriesOf(j) : vault'[a] = vault[a]
                /\ (j \in TrackedNow') = (j \in TrackedNow)]_vars

\* The same with the primary accounts other than the namespaced account of k in
\* place of "the entries of all other keys" (not a claim of the specification; it
\* locates the failure of C30).
SetPrimaryFrameApartFromSharedAccounts ==
    [][(last'.op = "set" /\ last'.served = "primary") =>
          LET k == last'.key IN
          /\ vault' = [vault EXCEPT ![getSecureKeychainAccount(k)] = last'.value]
          /\ TrackedNow' = TrackedNow \cup {k}
          /\ fallback' = fallback
          /\ last'.enc = "unchecked" /\ last'.pfail = "none" /\ ~last'.fbRead
          /\ last'.outcome = "ok" /\ warnings' = warnings]_vars

\* C31 (no plaintext in the fallback map): whenever a get, set, remove or clear
\* leaves a fallback entry with a new content, either the step is a set(k, v) and
\* the entry is the namespaced entry of k holding the base64 text of the ciphertext
\* of v, or it is a migrating get(k) and the entry is the namespaced entry of k
\* holding the text the legacy entry held; the new content is never a value as
\* passed to set.
C31_NoPlaintextInFallback ==
    [][last'.op \in StoreOps =>
          \A a \in Accounts :
              (fallback'[a] # fallback[a] /\ fallback'[a] # NULL) =>
                  /\ fallback'[a] \notin Values
                  /\ a = getSecureStorageKey(last'.key)
                  /\ \/ /\ last'.op = "set"
                        /\ fallback'[a] = toBase64(encryptString(last'.value))
                        /\ decryptString(fallback'[a]) = last'.value
                     \/ /\ last'.op = "get" /\ last'.migrated
                        /\ fallback'[a] = fallback[last'.key]]_vars

\* A set was served by the fallback and the namespaced entry of its key holds the
\* base64 text of the ciphertext of its value.
C31_Witness ==
    /\ last.op = "set" /\ last.served = "fallback" /\ last.value = "v2"
    /\ fallback[getSecureStorageKey(last.key)] = toBase64(encryptString("v2"))

\* C32 (fallback migration needs a decryption): when a get(k) reads the fallback
\* map and finds no namespaced entry but a legacy one, then if the legacy text
\* decrypts, the namespaced entry now holds that text, the legacy entry is gone, k
\* is in the index and the plaintext is returned; if it does not decrypt, the get
\* returns null and the fallback map and the index are exactly as before.
C32_FallbackMigrationNeedsDecryption ==
    [][(/\ last'.op = "get" /\ last'.fbRead /\ ops' = ops + 1
        /\ last'.nsBefore = NULL /\ last'.legacyBefore # NULL) =>
          LET k == last'.key IN
          IF decryptString(last'.legacyBefore) # "throw"
          THEN /\ last'.migrated
               /\ fallback'[getSecureStorageKey(k)] = last'.legacyBefore
               /\ fallback'[k] = NULL
               /\ k \in TrackedNow'
               /\ last'.result = decryptString(last'.legacyBefore)
          ELSE /\ ~last'.migrated
               /\ last'.result = NULL /\ last'.outcome = "ok"
               /\ fallback' = fallback
               /\ secureKeyIndex' = secureKeyIndex]_vars

\* A get on the fallback path found only a legacy entry that does not decrypt: the
\* entry is still there and nothing was migrated.
C32_Witness ==
    /\ last.op = "get" /\ last.fbRead /\ last.key = <<"a">>
    /\ last.nsBefore = NULL /\ last.legacyBefore = Garbage
    /\ fallback[<<"a">>] = Garbage
    /\ fallback[getSecureStorageKey(<<"a">>)] = NULL

\* C33 (remove deletes the two primary accounts independently): a remove(k) whose
\* deletion of the namespaced primary account is rejected still calls the deletion
\* of the legacy primary account; and after every remove(k) the fallback map holds
\* neither the namespaced nor the legacy entry of k and k is not in the index.
C33_RemoveDeletesIndependently ==
    [][last'.op = "remove" =>
          LET k == last'.key IN
          /\ last'.pfail = "deleteNamespaced" => last'.pcalls = 2
          /\ fallback'[getSecureStorageKey(k)] = NULL
          /\ fallback'[k] = NULL
          /\ k \notin TrackedNow']_vars

\* The part of C33 about the fallback map and the index (not a claim of the
\* specification; it locates the failure of C33).
RemoveClearsFallbackAndIndex ==
    [][last'.op = "remove" =>
          LET k == last'.key IN
          /\ fallback'[getSecureStorageKey(k)] = NULL
          /\ fallback'[k] = NULL
          /\ k \notin TrackedNow']_vars


-----------------------------------------------------------------------------
(* The non-secret local store (index.ts 359-409, 1330-1360) *)

LocalSt == [entries |-> localEntries, index |-> secureKeyIndex]

storeGet(st, name) == IF name = SECURE_KEY_INDEX THEN st.index ELSE st.entries[name]

storeSet(st, name, x) ==
    IF name = SECURE_KEY_INDEX THEN [st EXCEPT !.index = x]
    ELSE [st EXCEPT !.entries[name] = x]

storeDelete(st, name) == storeSet(st, name, IndexAbsent)

resolveLocalValue(namespacedValue, legacyValue) ==
    IF IsStoredString(namespacedValue)
    THEN [value |-> namespacedValue, shouldMigrateLegacyValue |-> FALSE]
    ELSE IF IsStoredString(legacyValue)
    THEN [value |-> legacyValue, shouldMigrateLegacyValue |-> TRUE]
    ELSE [value |-> IndexAbsent, shouldMigrateLegacyValue |-> FALSE]

localGetValue(st, key) ==
    LET namespacedKey == getLocalStorageKey(key)
        resolved == resolveLocalValue(storeGet(st, namespacedKey), storeGet(st, key))
    IN  IF resolved.shouldMigrateLegacyValue /\ resolved.value # IndexAbsent
        THEN [s |-> storeDelete(storeSet(st, namespacedKey, resolved.value), key),
              ret |-> resolved.value]
        ELSE [s |-> st, ret |-> resolved.value]

localSetValue(st, key, value) ==
    [s |-> storeSet(st, getLocalStorageKey(key), LocalText(value)), ret |-> IndexAbsent]

localDeleteValue(st, key) ==
    [s |-> storeDelete(storeDelete(st, getLocalStorageKey(key)), key),
     ret |-> IndexAbsent]

\* Deletes the entries whose name starts with the local namespace.
clearLocalValues(st) ==
    [s |-> [st EXCEPT !.entries =
                [n \in LocalAccounts |->
                    IF Head(n) = LocalNSTok THEN IndexAbsent ELSE st.entries[n]]],
     ret |-> IndexAbsent]

nonLocalVars == <<keytarClient, keytarLoadError, keytarFallbackWarned, warnings, vault,
                  fallback, probeAttempts, failureSeen, liveSets, last,
                  windowVars, notifyVars, linkVars, raceVars>>

CommitLocal(op, key, indexBefore, r) ==
    /\ localEntries' = r.s.entries
    /\ secureKeyIndex' = r.s.index
    /\ localLast' = [op |-> op, key |-> key, result |-> r.ret,
                     indexBefore |-> indexBefore, n |-> localLast.n + 1]
    /\ ops' = ops + 1
    /\ UNCHANGED nonLocalVars

\* STORAGE_GET / STORAGE_SET / STORAGE_REMOVE / STORAGE_CLEAR from a trusted sender
\* with a key that validateStorageKey accepts.
LocalGet(key) ==
    /\ ops < MaxOps
    /\ validateStorageKey([type |-> "string", text |-> key]) = "ok"
    /\ \E r \in {localGetValue(LocalSt, key)} :
          CommitLocal("get", key, secureKeyIndex, r)

LocalSet(key, value) ==
    /\ ops < MaxOps
    /\ validateStorageKey([type |-> "string", text |-> key]) = "ok"
    /\ \E r \in {localSetValue(LocalSt, key, value)} :
          CommitLocal("set", key, secureKeyIndex, r)

LocalRemove(key) ==
    /\ ops < MaxOps
    /\ validateStorageKey([type |-> "string", text |-> key]) = "ok"
    /\ \E r \in {localDeleteValue(LocalSt, key)} :
          CommitLocal("remove", key, secureKeyIndex, r)

LocalClear ==
    /\ ops < MaxOps
    /\ \E r \in {clearLocalValues(LocalSt)} :
          CommitLocal("clear", <<>>, secureKeyIndex, r)

\* A secure set that the primary backend serves, which writes the index.
SecureSetForLocal(key, value) == Set(key, value, "full", 0, TRUE)

LocalNext ==
    \/ \E k \in LocalKeys : LocalGet(k)
    \/ \E k \in LocalKeys, v \in Values : LocalSet(k, v)
    \/ \E k \in LocalKeys : LocalRemove(k)
    \/ LocalClear
    \/ \E k \in Keys, v \in Values : SecureSetForLocal(k, v)

SpecLocal == Init /\ [][LocalNext]_vars

\* C34: no non-secret storage get/set/remove/clear with a valid key (the reserved
\* index key name included) changes or deletes the value stored under the reserved
\* index key, and none returns that value.
C34_IndexIsolatedFromLocalApi ==
    [][localLast'.n = localLast.n + 1 =>
          /\ secureKeyIndex' = secureKeyIndex
          /\ (secureKeyIndex # IndexAbsent => localLast'.result # secureKeyIndex)]_vars

\* What does hold: with keys other than the reserved name, the index is untouched and
\* never returned.
LocalApiSparesIndexForOtherKeys ==
    [][(localLast'.n = localLast.n + 1 /\ localLast'.key # SECURE_KEY_INDEX) =>
          /\ secureKeyIndex' = secureKeyIndex
          /\ (secureKeyIndex # IndexAbsent => localLast'.result # secureKeyIndex)]_vars


-----------------------------------------------------------------------------
(* remove and clear running step by step next to set (index.ts 605-672) *)

\* secureDeleteValue is called (index.ts 605-610): getKeytar runs to its end and
\* the caller suspends on its promise.
StartRemove(key, probe) ==
    /\ Len(calls) < MaxCalls
    /\ CanonProbe(probe)
    /\ \E kt \in {getKeytar(St, probe)} :
          /\ CommitStore(kt.s)
          /\ calls' = Append(calls, [key |-> key, value |-> NULL,
                                     pc |-> "removeAwaitKeytar", available |-> kt.ok,
                                     served |-> "none", outcome |-> "pending",
                                     todo |-> {}, op |-> "remove"])
    /\ UNCHANGED <<backendWrites, nonRaceVars>>

\* secureDeleteValue after its try/catch (index.ts 617-620), which has no
\* suspension point: both fallback entries are deleted and the key is untracked.
RemoveFinish(i, s, served) ==
    /\ CommitStore([s EXCEPT
           !.fallback = [@ EXCEPT ![getSecureStorageKey(calls[i].key)] = NULL,
                                  ![calls[i].key] = NULL],
           !.index = untrackSecureKey(@, calls[i].key)])
    /\ calls' = [calls EXCEPT ![i].pc = "done", ![i].outcome = "ok",
                              ![i].served = served]

\* The call keeps the store as it is and suspends at its next primary call.
SuspendAt(i, pc) ==
    /\ calls' = [calls EXCEPT ![i].pc = pc]
    /\ UNCHANGED <<keytarClient, keytarLoadError, keytarFallbackWarned, warnings,
                   vault, fallback, secureKeyIndex, probeAttempts>>

\* The remove resumes after an await (index.ts 610-615): it issues the next
\* deletePassword, or goes to the catch when the awaited promise was rejected, or
\* leaves the try block.
RemoveResume(i) ==
    /\ i \in 1..Len(calls)
    /\ CASE calls[i].pc = "removeAwaitKeytar" ->
               IF calls[i].available THEN SuspendAt(i, "awaitDeleteNamespaced")
               ELSE RemoveFinish(i, warnKeytarFallback(St), "fallback")
         [] calls[i].pc = "deleteNamespacedResolved" ->
               SuspendAt(i, "awaitDeleteLegacy")
         [] calls[i].pc = "deleteLegacyResolved" -> RemoveFinish(i, St, "primary")
         [] calls[i].pc \in {"deleteNamespacedRejected", "deleteLegacyRejected"} ->
               RemoveFinish(i, warnKeytarFallback(St), "fallback")
         [] OTHER -> FALSE
    /\ UNCHANGED <<backendWrites, nonRaceVars>>

\* The account a pending deletePassword of call i names.
DeleteTarget(i) ==
    IF calls[i].pc = "awaitDeleteNamespaced" THEN getSecureKeychainAccount(calls[i].key)
    ELSE calls[i].key

\* The keychain completes a deletePassword: the account is gone, or the call rejects.
KeychainDeletePassword(i, rejects) ==
    /\ i \in 1..Len(calls)
    /\ calls[i].pc \in {"awaitDeleteNamespaced", "awaitDeleteLegacy", "clearAwaitDelete"}
    /\ vault' = IF rejects THEN vault ELSE [vault EXCEPT ![DeleteTarget(i)] = NULL]
    /\ calls' = [calls EXCEPT ![i].pc =
                   CASE calls[i].pc = "awaitDeleteNamespaced" ->
                           IF rejects THEN "deleteNamespacedRejected"
                           ELSE "deleteNamespacedResolved"
                     [] calls[i].pc = "awaitDeleteLegacy" ->
                           IF rejects THEN "deleteLegacyRejected"
                           ELSE "deleteLegacyResolved"
                     [] OTHER -> "clearDeleteSettled",
                  ![i].served = IF rejects /\ calls[i].pc = "clearAwaitDelete"
                                THEN "entryFailed" ELSE @]
    /\ UNCHANGED <<keytarClient, keytarLoadError, keytarFallbackWarned, warnings,
                   fallback, secureKeyIndex, probeAttempts, backendWrites, nonRaceVars>>

\* clearSecureValues is called (index.ts 623-628) on a keytar with findCredentials.
StartClear(probe) ==
    /\ Len(calls) < MaxCalls
    /\ CanonProbe(probe)
    /\ \E kt \in {getKeytar(St, probe)} :
          /\ CommitStore(kt.s)
          /\ calls' = Append(calls, [key |-> <<>>, value |-> NULL,
                                     pc |-> "clearAwaitKeytar", available |-> kt.ok,
                                     served |-> "none", outcome |-> "pending",
                                     todo |-> {}, op |-> "clear"])
    /\ UNCHANGED <<backendWrites, nonRaceVars>>

\* clearSecureValues after its try/catch (index.ts 662-671), which has no
\* suspension point: every fallback entry is deleted and the index is emptied.
ClearFinish(i, s, served) ==
    /\ CommitStore([s EXCEPT
           !.fallback = [a \in Accounts |->
                           IF a \in fallbackKeysToDelete(@) THEN NULL ELSE @[a]],
           !.index = writeSecureKeyIndex({})])
    /\ calls' = [calls EXCEPT ![i].pc = "done", ![i].outcome = "ok",
                              ![i].served = served]

\* The keychain completes findCredentials: the accounts it holds at that moment.
KeychainFindCredentials(i, rejects) ==
    /\ i \in 1..Len(calls)
    /\ calls[i].pc = "awaitFind"
    /\ calls' = [calls EXCEPT
                   ![i].pc = IF rejects THEN "findRejected" ELSE "findResolved",
                   ![i].todo = IF rejects THEN {}
                               ELSE {a \in Accounts : vault[a] # NULL}]
    /\ UNCHANGED <<keytarClient, keytarLoadError, keytarFallbackWarned, warnings,
                   vault, fallback, secureKeyIndex, probeAttempts, backendWrites,
                   nonRaceVars>>

\* The clear resumes after an await (index.ts 628-660): it issues findCredentials
\* or the deletePassword of the next credential, or leaves the try block.
ClearResume(i) ==
    /\ i \in 1..Len(calls)
    /\ CASE calls[i].pc = "clearAwaitKeytar" ->
               IF calls[i].available THEN SuspendAt(i, "awaitFind")
               ELSE ClearFinish(i, warnKeytarFallback(St), "fallback")
         [] calls[i].pc = "findRejected" ->
               ClearFinish(i, warnKeytarFallback(St), "fallback")
         [] calls[i].pc \in {"findResolved", "clearDeleteSettled"} ->
               IF calls[i].todo = {}
               THEN ClearFinish(i, St,
                       IF calls[i].served = "entryFailed" THEN "entryFailed"
                       ELSE "primary")
               ELSE \E a \in calls[i].todo :
                       /\ calls' = [calls EXCEPT ![i].pc = "clearAwaitDelete",
                                                 ![i].key = a,
                                                 ![i].todo = @ \ {a}]
                       /\ UNCHANGED <<keytarClient, keytarLoadError,
                                      keytarFallbackWarned, warnings, vault, fallback,
                                      secureKeyIndex, probeAttempts>>
         [] OTHER -> FALSE
    /\ UNCHANGED <<backendWrites, nonRaceVars>>

MixNext ==
    \/ \E k \in RaceKeys, v \in Values, p \in RaceProbes : StartSet(k, v, p)
    \/ \E i \in 1..MaxCalls, e \in BOOLEAN : ResumeAfterKeytar(i, e)
    \/ \E i \in 1..MaxCalls, r \in BOOLEAN : KeychainSetPassword(i, r)
    \/ \E i \in 1..MaxCalls, e \in BOOLEAN : ResumeAfterSet(i, e)
    \/ \E k \in RaceKeys, p \in RaceProbes : StartRemove(k, p)
    \/ \E i \in 1..MaxCalls : RemoveResume(i)
    \/ \E i \in 1..MaxCalls, r \in BOOLEAN : KeychainDeletePassword(i, r)
    \/ \E p \in RaceProbes : StartClear(p)
    \/ \E i \in 1..MaxCalls, r \in BOOLEAN : KeychainFindCredentials(i, r)
    \/ \E i \in 1..MaxCalls : ClearResume(i)

SpecMix == Init /\ [][MixNext]_vars

\* What get(key) returns on the available primary once the calls have completed.
GetOnPrimary(key) ==
    secureGetValue(St, key, [probe |-> "full", encAvail |-> TRUE, failAt |-> 0]).ret.result

IndexMatchesGet(key) ==
    key \in getTrackedSecureKeys(secureKeyIndex) <=> GetOnPrimary(key) # NULL

IsOp(i, op) == i \in 1..Len(calls) /\ calls[i].op = op

\* A set and a remove of the same key have both completed, and no primary call of
\* either failed.
SetAndRemoveDone ==
    /\ AllDone /\ Len(calls) = 2
    /\ \E i, j \in 1..2 : IsOp(i, "set") /\ IsOp(j, "remove") /\ calls[i].key = calls[j].key
    /\ \A i \in 1..2 : calls[i].served = "primary"

\* C35: when a set(k, v) and a remove(k) that ran concurrently on an available
\* primary have both completed, the index contains k exactly if get(k) returns a
\* non-null value.
C35_SetRemoveIndexMatchesGet ==
    SetAndRemoveDone => IndexMatchesGet(calls[1].key)

\* A clear and a set have both completed, and no primary call of either failed.
ClearAndSetDone ==
    /\ AllDone /\ Len(calls) = 2
    /\ \E i, j \in 1..2 : IsOp(i, "clear") /\ IsOp(j, "set")
    /\ \A i \in 1..2 : calls[i].served = "primary"

\* C36: when a clear() and a set(k, v) that ran concurrently have both completed,
\* the index contains k exactly if get(k) returns a non-null value (checked on the
\* runs in which no primary call fails).
C36_ClearSetIndexMatchesGet ==
    ClearAndSetDone =>
        \A i \in 1..2 : IsOp(i, "set") => IndexMatchesGet(calls[i].key)


-----------------------------------------------------------------------------
(* Reads after writes on one instance whose primary calls may fail *)

\* The keytar handle is loaded before and after the step.
HandleStaysLoaded == keytarClient # "none" /\ keytarClient' # "none"

\* A get that directly follows a successfully completed set, remove or clear
\* touching its key does not return a value that operation replaced or removed.
FreshRead ==
    (last'.op = "get" /\ last'.outcome = "ok") =>
        /\ (last.op = "set" /\ last.outcome = "ok" /\ last.key = last'.key)
              => last'.result \in {NULL, last.value}
        /\ (last.op = "remove" /\ last.key = last'.key) => last'.result = NULL
        /\ last.op = "clear" => last'.result = NULL

\* C37: on one store instance whose primary calls may fail one by one while the
\* handle stays loaded, get(k) never returns a value that a later successfully
\* completed set(k, .) has overwritten or that a later successfully completed
\* remove(k) or clear() has removed.
C37_NoStaleRead ==
    [][HandleStaysLoaded => FreshRead]_vars

\* What does hold: when neither the write nor the read hits a failing primary call
\* or an unavailable primary, and the keytar build has findCredentials, the read is
\* fresh.
NoStaleReadWithoutFailures ==
    [][(last.pfail = "none" /\ last'.pfail = "none" /\ keytarClient' = "full"
        /\ last.served = "primary" /\ last'.served = "primary") => FreshRead]_vars

\* The instance that stored last.key through the fallback has exited, and the next
\* instance reads that key from an available primary that holds no entry for it.
FallbackValueReadOnPrimary ==
    /\ last.op = "restart" /\ last.outcome = "ok" /\ last.served = "fallback"
    /\ last'.op = "get" /\ last'.key = last.key
    /\ last'.outcome = "ok" /\ last'.served = "primary" /\ last'.pfail = "none"
    /\ vault[getSecureKeychainAccount(last.key)] = NULL
    /\ vault[last.key] = NULL

\* C38: a value stored by a successful set(k, v) through the fallback is still
\* returned by get(k) in a later store instance whose primary is available and holds
\* no entry for k, when nothing has touched k in between.
C38_NoLossAcrossBackends ==
    [][FallbackValueReadOnPrimary => last'.result = last.value]_vars

\* What the code does instead: such a get returns null and leaves the fallback
\* entry where it is.
FallbackValueHiddenByPrimary ==
    [][FallbackValueReadOnPrimary =>
          /\ last'.result = NULL
          /\ fallback' = fallback]_vars

=============================================================================
